---- MODULE Spec2Model ----
(***************************************************************************)
(* The session coordinator of InterVue: the socket.io handlers of          *)
(* server/server.js (create_session, candidate_answer, finish_interview)   *)
(* and the InterviewSession class of server/interviewManager.js.           *)
(*                                                                         *)
(* Every handler is an async function.  It runs synchronously up to its    *)
(* first await (the generator call, later the database insert) and is      *)
(* resumed when the awaited promise settles; other handlers run in         *)
(* between.  Each suspended handler is one entry of `handlers`, its pc     *)
(* saying which await it is suspended at; a handler that ends leaves it.   *)
(*                                                                         *)
(* Spec is the coordinator with its clients' requests.  ClientSpec is the  *)
(* Interview component of client/src/Interview.jsx with the coordinator's  *)
(* events as its environment; ClientLive adds the fairness of its timers.  *)
(* ScorerSpec applies the component's localAnalyze to answers and roles.   *)
(* PairSpec is the coordinator with two clients.                           *)
(***************************************************************************)
EXTENDS Integers, Sequences, FiniteSets, TLC

\* ----------------------------------------------------------------- bounds
\* number of requests the coordinator receives in one run
MaxReqs == 3
\* number of times Date.now() is read a millisecond later than before
MaxClock == 1

\* ----------------------------------------------------------------- inputs
\* connected sockets
Sockets == {"c1"}
\* (role, resume) pairs sent with create_session; the first role matches
\* the 'backend' role defaults, which are added when the resume is empty
CreateInputs == { [role |-> "Backend Engineer", resume |-> ""],
                  [role |-> "QA Engineer", resume |-> "cv"] }
Transcripts == {"t1"}
\* durationMin sent by the client (Interview.jsx:388)
DurationMin == 18
\* a session id no create_session ever produced
UnknownSessionId == "s_unknown"
\* the id of the question the client's follow-up watchdog picks from its
\* local bank ROLE_QUESTIONS: the entry at index 1
LocalBankQuestionId == "b2"
\* currentQuestion of a client that was given no question yet
NoQuestion == "<null>"

\* JavaScript null
Null == [null |-> TRUE]

\* sessionId of a component that has no session
NoSession == "<null>"
\* the role the launcher starts with (App.jsx:6)
InitialRole == "Frontend Engineer"
\* the kinds of request the component sends, none of them awaited
NoneAwaited == [create_session |-> 0, candidate_answer |-> 0,
                finish_interview |-> 0]

\* ------------------------------------------------------- generator output
\* The text returned by the generator is untrusted.  kind says what
\* JSON.parse makes of it: "reject" the call itself fails, "raw" the text
\* does not parse (line1 is its first line), "null" the text is the JSON
\* literal null, "json" the text parses to an object with the fields given.
OpeningReplies ==
    { [kind |-> "reject"],
      [kind |-> "raw", line1 |-> "Sure, here is a question"],
      [kind |-> "json", question |-> "", key_topic |-> ""],
      [kind |-> "json", question |-> "Walk me through your last project.",
                        key_topic |-> "apis"] }

FollowupReplies ==
    { [kind |-> "reject"],
      [kind |-> "raw", line1 |-> ""],
      [kind |-> "raw", line1 |-> "Can you elaborate?"],
      [kind |-> "json", followup |-> "", key_points |-> <<>>],
      [kind |-> "json", followup |-> "Which tradeoffs did you make?",
                        key_points |-> <<"kp">>] }

RecommendationReplies ==
    { [kind |-> "reject"],
      [kind |-> "raw", txt |-> "The candidate did fine."],
      [kind |-> "null", txt |-> "null"],
      [kind |-> "json", value |-> [recommendation |-> "Pass", score |-> 80,
                                   summary |-> "Strong"]] }

InsertOutcomes == {"ok", "fail"}

\* ------------------------------------------------------------------ state
VARIABLES
    now,        \* the last value read from Date.now(), the process starting at 0
    objs,       \* the InterviewSession objects, in order of construction
    sessions,   \* the Map `sessions`: session id -> InterviewSession object
    rooms,      \* socket.io rooms: session id -> sockets that joined
    handlers,   \* the suspended handler invocations, by request number
    nreq,       \* number of requests received
    emitted,    \* the events emitted by the last step
    interviews, \* rows inserted into the `interviews` table
    mutLog,     \* order of the pushes candidate_answer made, per object
    currentQuestion, \* per socket, the id of the client's currentQuestion
    \* the Interview component of the client (Interview.jsx)
    props,       \* the props: role
    state,       \* the useState values: socketConnected, sessionId,
                 \* sessionActive, interviewFinished, result
    refs,        \* the useRef values: localQuestions (the ids of the
                 \* questions), localIndex, localAnswers, followupTimeout
    utterance,   \* the utterance being spoken
    recognition, \* the SpeechRecognition that is listening
    timers,      \* the timers set by setTimeout that are pending
    awaiting,    \* requests sent to the coordinator and not yet answered
    clicks,      \* number of times the candidate pressed a button
    acted        \* what the last step of the component did

clientVars == <<props, state, refs, utterance, recognition, timers, awaiting,
                clicks, acted>>

vars == <<now, objs, sessions, rooms, handlers, nreq, emitted, interviews,
          mutLog, currentQuestion, props, state, refs, utterance,
          recognition, timers, awaiting, clicks, acted>>

\* -------------------------------------------------------- InterviewSession
\* askedAt and ts, the timestamps of questions and answers, are written by
\* addQuestion and addAnswer and read by nothing; the model leaves them out
InterviewSession(id, role, resume, durationMin) ==
    [ id |-> id, role |-> role, resume |-> resume, durationMin |-> durationMin,
      start |-> -1, end |-> -1,
      questions |-> <<>>, answers |-> <<>>, keyPoints |-> <<>>,
      recommendation |-> Null, ended |-> FALSE ]

startNow(s, t) ==
    [s EXCEPT !.start = t, !.end = t + s.durationMin * 60 * 1000]

QId(n) == "q_" \o ToString(n)

addQuestion(s, text) ==
    [s EXCEPT !.questions =
        Append(@, [id |-> QId(Len(s.questions) + 1), text |-> text])]

\* addAnswer keeping only the latest answer
addAnswer_Overwrite(s, questionId, transcript) ==
    [s EXCEPT !.answers =
        << [questionId |-> questionId, transcript |-> transcript] >>]

addAnswer(s, questionId, transcript) ==
    [s EXCEPT !.answers =
        Append(@, [questionId |-> questionId, transcript |-> transcript])]

\* DefaultQuestionText without the role
DefaultQuestionText_NoRole(role) ==
    "Tell me about your experience."

DefaultQuestionText(role) ==
    "Tell me about your experience relevant to the role of " \o role \o "."

\* InitialQuestionText without the `|| default` of an empty parsed.question
InitialQuestionText_NoDefault(role, out) ==
    IF out.kind = "json"
    THEN out.question
    ELSE DefaultQuestionText(role)

\* the text of the opening question, from the generator's reply
InitialQuestionText(role, out) ==
    IF out.kind = "json" /\ out.question # ""
    THEN out.question
    ELSE DefaultQuestionText(role)

\* generateInitialQuestion: the session after the call and the question
\* returned; every failure is caught inside and yields the default question
generateInitialQuestion(s, out) ==
    [ session |-> IF out.kind = "json" /\ out.key_topic # ""
                  THEN [s EXCEPT !.keyPoints =
                            Append(@, "Starting topic: " \o out.key_topic)]
                  ELSE s,
      question |-> [id |-> "q_1", text |-> InitialQuestionText(s.role, out)] ]

\* the role defaults of create_session: the questions of the first key of
\* `defaults` that the lower-cased role contains
RoleDefaults(role) ==
    IF role = "Backend Engineer"
    THEN << "Describe a scalable backend system you designed and the trade-offs you made.",
            "How do you approach data modeling and performance for high-throughput services?" >>
    ELSE << >>

RECURSIVE addQuestions(_, _)
addQuestions(s, texts) ==
    IF texts = << >> THEN s
    ELSE addQuestions(addQuestion(s, Head(texts)), Tail(texts))

SessionId(t) == "s_" \o ToString(t)

\* ---------------------------------------------------------------- helpers
Handler(kind, socket, sessionId, obj, pc) ==
    [ kind |-> kind, socket |-> socket, sessionId |-> sessionId, obj |-> obj,
      pc |-> pc, rec |-> Null, prompt |-> Null ]

Suspend(rid, h) == [r \in DOMAIN handlers \cup {rid} |->
                        IF r = rid THEN h ELSE handlers[r]]

Return(rid) == [r \in DOMAIN handlers \ {rid} |-> handlers[r]]

\* io.to(id): the sockets that joined the room of the id
RoomOf(id) == IF id \in DOMAIN rooms THEN rooms[id] ELSE {}

\* the client's session_created and followup handlers: a socket that
\* receives a question with a text makes it its currentQuestion
Receive(to, question) ==
    [c \in DOMAIN currentQuestion |-> IF c \in to /\ question.text # ""
                       THEN question.id ELSE currentQuestion[c]]

\* the coordinator after start-up, no request received yet
ServerInit ==
    /\ now = 0
    /\ objs = << >>
    /\ sessions = << >>
    /\ rooms = << >>
    /\ handlers = << >>
    /\ nreq = 0
    /\ emitted = << >>
    /\ interviews = {}
    /\ mutLog = << >>

\* the Interview component after it mounted with the prop role = r: the
\* useState and useRef initial values, the socket created and not connected
Mount(r) ==
    /\ props = [role |-> r]
    /\ currentQuestion = [c \in Sockets |-> NoQuestion]
    /\ state = [ socketConnected |-> FALSE, sessionId |-> NoSession,
                 sessionActive |-> FALSE, interviewFinished |-> FALSE,
                 result |-> Null ]
    /\ refs = [ localQuestions |-> << >>, localIndex |-> 0,
                localAnswers |-> << >>, followupTimeout |-> Null ]
    /\ utterance = Null
    /\ recognition = Null
    /\ timers = {}
    /\ awaiting = NoneAwaited
    /\ clicks = 0
    /\ acted = << >>

Init ==
    /\ ServerInit
    /\ Mount(InitialRole)

\* --------------------------------------------------------- create_session
\* the handler up to `await session.generateInitialQuestion()`; t is the
\* value of Date.now() when the handler runs: the millisecond of the last
\* reading or a later one (the clock is read nowhere else)
create_session(socket, role, resume, durationMin, t) ==
    /\ nreq < MaxReqs
    /\ t \in {now, now + 1}
    /\ t <= MaxClock
    /\ now' = t
    /\ nreq' = nreq + 1
    /\ LET id == SessionId(t)
           session == startNow(InterviewSession(id, role, resume, durationMin), t)
       IN /\ objs' = Append(objs, session)
          /\ handlers' = Suspend(nreq + 1,
                 Handler("create_session", socket, id, Len(objs) + 1,
                         "awaitGenerator"))
    /\ emitted' = << >>
    /\ UNCHANGED clientVars
    /\ UNCHANGED <<sessions, rooms, interviews, mutLog, currentQuestion>>

\* create_session_resume without `session.questions.push(initialQuestion)`
create_session_resume_NoPush(rid, out) ==
    /\ handlers[rid].kind = "create_session"
    /\ handlers[rid].pc = "awaitGenerator"
    /\ LET h == handlers[rid]
           id == h.sessionId
           g == generateInitialQuestion(objs[h.obj], out)
           initialQuestion == g.question
           pushed == g.session
           matched == RoleDefaults(pushed.role)
           final == IF pushed.resume = "" /\ matched # << >>
                    THEN addQuestions(pushed, matched)
                    ELSE pushed
           room == RoomOf(id) \cup {h.socket}
       IN /\ objs' = [objs EXCEPT ![h.obj] = final]
          /\ sessions' = [i \in DOMAIN sessions \cup {id} |->
                             IF i = id THEN h.obj ELSE sessions[i]]
          /\ rooms' = [i \in DOMAIN rooms \cup {id} |->
                             IF i = id THEN room ELSE rooms[i]]
          /\ emitted' = << [ type |-> "session_created", to |-> room,
                             sessionId |-> id, start |-> pushed.start,
                             end |-> pushed.end,
                             firstQuestion |-> initialQuestion ] >>
          /\ currentQuestion' = Receive(room, initialQuestion)
    /\ handlers' = Return(rid)
    /\ UNCHANGED clientVars
    /\ UNCHANGED <<now, nreq, interviews, mutLog>>

\* the handler from the generator's reply to its end
create_session_resume(rid, out) ==
    /\ handlers[rid].kind = "create_session"
    /\ handlers[rid].pc = "awaitGenerator"
    /\ LET h == handlers[rid]
           id == h.sessionId
           g == generateInitialQuestion(objs[h.obj], out)
           initialQuestion == g.question
           pushed == [g.session EXCEPT !.questions = Append(@, initialQuestion)]
           matched == RoleDefaults(pushed.role)
           final == IF pushed.resume = "" /\ matched # << >>
                    THEN addQuestions(pushed, matched)
                    ELSE pushed
           room == RoomOf(id) \cup {h.socket}
       IN /\ objs' = [objs EXCEPT ![h.obj] = final]
          /\ sessions' = [i \in DOMAIN sessions \cup {id} |->
                             IF i = id THEN h.obj ELSE sessions[i]]
          /\ rooms' = [i \in DOMAIN rooms \cup {id} |->
                             IF i = id THEN room ELSE rooms[i]]
          /\ emitted' = << [ type |-> "session_created", to |-> room,
                             sessionId |-> id, start |-> pushed.start,
                             end |-> pushed.end,
                             firstQuestion |-> initialQuestion ] >>
          /\ currentQuestion' = Receive(room, initialQuestion)
    /\ handlers' = Return(rid)
    /\ UNCHANGED clientVars
    /\ UNCHANGED <<now, nreq, interviews, mutLog>>

\* ------------------------------------------------------- candidate_answer
\* the canned follow-up sent when the generator call fails
CannedFollowup ==
    [ id |-> "",
      text |-> "Thanks - next question: What challenges did you face on that project and how did you solve them?" ]

\* ErrorEvent sent to nobody
ErrorEvent_NoRecipient(socket) ==
    [ type |-> "error", to |-> {}, message |-> "session not found" ]

ErrorEvent(socket) ==
    [ type |-> "error", to |-> {socket}, message |-> "session not found" ]

\* what the prompt of requestFollowupAndKeypoints gives the generator: the
\* role, the resume and the last question-answer pair, Q being the text of
\* the last entry of questions
FollowupPrompt(s, lastAnswer) ==
    [ role |-> s.role, resume |-> s.resume,
      Q |-> s.questions[Len(s.questions)].text, A |-> lastAnswer ]

\* the handler up to `await session.requestFollowupAndKeypoints(transcript)`:
\* the lookup, addAnswer and the start of the generator call
candidate_answer(socket, sessionId, questionId, transcript) ==
    /\ nreq < MaxReqs
    /\ nreq' = nreq + 1
    /\ IF sessionId \notin DOMAIN sessions
       THEN /\ emitted' = << ErrorEvent(socket) >>
            /\ UNCHANGED <<objs, mutLog, handlers>>
       ELSE LET o == sessions[sessionId] IN
            /\ objs' = [objs EXCEPT ![o] = addAnswer(@, questionId, transcript)]
            /\ mutLog' = Append(mutLog, [obj |-> o, rid |-> nreq + 1])
            /\ handlers' = Suspend(nreq + 1,
                   [ Handler("candidate_answer", socket, sessionId, o,
                             "awaitGenerator")
                       EXCEPT !.prompt = FollowupPrompt(objs[o], transcript) ])
            /\ emitted' = << >>
    /\ UNCHANGED clientVars
    /\ UNCHANGED <<now, sessions, rooms, interviews, currentQuestion>>

\* the follow-up without the fallback of the catch block
FollowupText_NoRawFallback(out) ==
    IF out.kind = "json" THEN out.followup ELSE ""

\* the follow-up text requestFollowupAndKeypoints takes from the reply:
\* parsed.followup, or the first line of the text when it does not parse
FollowupText(out) ==
    IF out.kind = "json" THEN out.followup ELSE out.line1

\* the key points requestFollowupAndKeypoints pushes
FollowupKeyPoints(out) ==
    IF out.kind = "json" THEN out.key_points ELSE << >>

\* requestFollowupAndKeypoints after the generator replied (not rejected)
requestFollowupAndKeypoints(s, out) ==
    LET q == IF FollowupText(out) # "" THEN addQuestion(s, FollowupText(out))
             ELSE s
    IN [q EXCEPT !.keyPoints = @ \o FollowupKeyPoints(out)]

\* the question the handler emits as the follow-up
latestQ(s) == s.questions[Len(s.questions)]

\* the handler from the generator's reply to its end
candidate_answer_resume(rid, out) ==
    /\ handlers[rid].kind = "candidate_answer"
    /\ handlers[rid].pc = "awaitGenerator"
    /\ LET h == handlers[rid]
           o == h.obj
           after == requestFollowupAndKeypoints(objs[o], out)
           pushes == (IF after.questions # objs[o].questions THEN 1 ELSE 0)
                   + (IF after.keyPoints # objs[o].keyPoints THEN 1 ELSE 0)
           followup == IF out.kind = "reject" THEN CannedFollowup
                       ELSE latestQ(after)
       IN /\ IF out.kind = "reject"
             THEN UNCHANGED <<objs, mutLog>>
             ELSE /\ objs' = [objs EXCEPT ![o] = after]
                  /\ mutLog' = mutLog \o
                         [i \in 1..pushes |-> [obj |-> o, rid |-> rid]]
          /\ emitted' = << [ type |-> "followup", to |-> RoomOf(h.sessionId),
                             followup |-> followup ] >>
          /\ currentQuestion' = Receive(RoomOf(h.sessionId), followup)
    /\ handlers' = Return(rid)
    /\ UNCHANGED clientVars
    /\ UNCHANGED <<now, nreq, sessions, rooms, interviews>>

\* ------------------------------------------------------- finish_interview
\* the handler up to the generator call of finalizeRecommendation
finish_interview(socket, sessionId) ==
    /\ nreq < MaxReqs
    /\ nreq' = nreq + 1
    /\ IF sessionId \notin DOMAIN sessions
       THEN /\ emitted' = << ErrorEvent(socket) >>
            /\ UNCHANGED handlers
       ELSE /\ handlers' = Suspend(nreq + 1,
                   Handler("finish_interview", socket, sessionId,
                           sessions[sessionId], "awaitGenerator"))
            /\ emitted' = << >>
    /\ UNCHANGED clientVars
    /\ UNCHANGED <<now, objs, sessions, rooms, interviews, mutLog,
                   currentQuestion>>

\* ParsedRecommendation dropping the generator's text on a parse failure
ParsedRecommendation_NoSummary(out) ==
    IF out.kind = "json" THEN out.value
    ELSE IF out.kind = "null" THEN Null
    ELSE [recommendation |-> "Undetermined", score |-> 50, summary |-> ""]

\* the recommendation finalizeRecommendation stores and returns
ParsedRecommendation(out) ==
    IF out.kind = "json" THEN out.value
    ELSE IF out.kind = "null" THEN Null
    ELSE [recommendation |-> "Undetermined", score |-> 50, summary |-> out.txt]

\* finalizeRecommendation after the generator replied (not rejected)
finalizeRecommendation(s, out) ==
    [s EXCEPT !.recommendation = ParsedRecommendation(out), !.ended = TRUE]

\* the `finished` event of finish_interview
FinishedEvent(sessionId, rec, s) ==
    [ type |-> "finished", to |-> RoomOf(sessionId), recommendation |-> rec,
      session |-> [questions |-> s.questions, answers |-> s.answers,
                   keyPoints |-> s.keyPoints] ]

\* the handler from the generator's reply to `await supabase...insert`.  A
\* rejected generator call is not caught: the handler ends there.  When
\* rec is null, reading rec.summary throws inside the try block, the catch
\* logs it and the finished event is emitted at once.
finish_interview_resume(rid, out) ==
    /\ handlers[rid].kind = "finish_interview"
    /\ handlers[rid].pc = "awaitGenerator"
    /\ LET h == handlers[rid]
           o == h.obj
           after == finalizeRecommendation(objs[o], out)
           rec == after.recommendation
       IN IF out.kind = "reject"
          THEN /\ handlers' = Return(rid)
               /\ emitted' = << >>
               /\ UNCHANGED objs
          ELSE /\ objs' = [objs EXCEPT ![o] = after]
               /\ IF rec = Null
                  THEN /\ emitted' = << FinishedEvent(h.sessionId, rec, after) >>
                       /\ handlers' = Return(rid)
                  ELSE /\ handlers' = [handlers EXCEPT ![rid].pc = "awaitInsert",
                                                       ![rid].rec = rec]
                       /\ emitted' = << >>
    /\ UNCHANGED clientVars
    /\ UNCHANGED <<now, nreq, sessions, rooms, interviews, mutLog,
                   currentQuestion>>

\* the row finish_interview inserts
InterviewRow(s, rec) ==
    [ id |-> s.id, role |-> s.role, resume |-> s.resume,
      started_at |-> s.start, ended_at |-> s.end, summary |-> rec.summary,
      recommendation |-> rec.recommendation, score |-> rec.score,
      key_points |-> s.keyPoints ]

\* finish_interview_inserted letting a failed insert end the handler
finish_interview_inserted_Propagate(rid, outcome) ==
    /\ handlers[rid].kind = "finish_interview"
    /\ handlers[rid].pc = "awaitInsert"
    /\ LET h == handlers[rid]
           s == objs[h.obj]
       IN /\ interviews' = IF outcome = "ok"
                           THEN interviews \cup {InterviewRow(s, h.rec)}
                           ELSE interviews
          /\ emitted' = IF outcome = "ok"
                        THEN << FinishedEvent(h.sessionId, h.rec, s) >>
                        ELSE << >>
    /\ handlers' = Return(rid)
    /\ UNCHANGED clientVars
    /\ UNCHANGED <<now, nreq, objs, sessions, rooms, mutLog, currentQuestion>>

\* the handler from the settling of the insert to its end: a failed insert
\* is caught and logged, the finished event is emitted either way
finish_interview_inserted(rid, outcome) ==
    /\ handlers[rid].kind = "finish_interview"
    /\ handlers[rid].pc = "awaitInsert"
    /\ LET h == handlers[rid]
           s == objs[h.obj]
       IN /\ interviews' = IF outcome = "ok"
                           THEN interviews \cup {InterviewRow(s, h.rec)}
                           ELSE interviews
          /\ emitted' = << FinishedEvent(h.sessionId, h.rec, s) >>
    /\ handlers' = Return(rid)
    /\ UNCHANGED clientVars
    /\ UNCHANGED <<now, nreq, objs, sessions, rooms, mutLog, currentQuestion>>

\* ----------------------------------------------------------------- client
\* The client's follow-up watchdog: 5 seconds after an answer was sent and
\* no followup event arrived, the client makes a question of its local bank
\* its currentQuestion.
followup_watchdog(socket) ==
    /\ \E r \in DOMAIN handlers : /\ handlers[r].kind = "candidate_answer"
                                  /\ handlers[r].socket = socket
    /\ currentQuestion[socket] # LocalBankQuestionId
    /\ currentQuestion' = [currentQuestion EXCEPT ![socket] = LocalBankQuestionId]
    /\ emitted' = << >>
    /\ UNCHANGED clientVars
    /\ UNCHANGED <<now, objs, sessions, rooms, handlers, nreq, interviews, mutLog>>

\* session ids a request can name
SessionIdInputs == DOMAIN sessions \cup {UnknownSessionId}

Next ==
    \/ \E c \in Sockets, i \in CreateInputs, t \in 0..MaxClock :
           create_session(c, i.role, i.resume, DurationMin, t)
    \/ \E rid \in DOMAIN handlers, out \in OpeningReplies :
           create_session_resume(rid, out)
    \/ \E c \in Sockets, sid \in SessionIdInputs, t \in Transcripts :
           /\ currentQuestion[c] # NoQuestion
           /\ candidate_answer(c, sid, currentQuestion[c], t)
    \/ \E rid \in DOMAIN handlers, out \in FollowupReplies :
           candidate_answer_resume(rid, out)
    \/ \E c \in Sockets, sid \in SessionIdInputs :
           finish_interview(c, sid)
    \/ \E rid \in DOMAIN handlers, out \in RecommendationReplies :
           finish_interview_resume(rid, out)
    \/ \E rid \in DOMAIN handlers, outcome \in InsertOutcomes :
           finish_interview_inserted(rid, outcome)
    \/ \E c \in Sockets : followup_watchdog(c)

Spec == Init /\ [][Next]_vars

\* ------------------------------------------------------------ two clients
\* The coordinator with two connected sockets, each creating sessions and
\* sending requests for any stored session.
PairSockets == {"c1", "c2"}

PairInit ==
    /\ ServerInit
    /\ props = [role |-> InitialRole]
    /\ currentQuestion = [c \in PairSockets |-> NoQuestion]
    /\ state = [ socketConnected |-> FALSE, sessionId |-> NoSession,
                 sessionActive |-> FALSE, interviewFinished |-> FALSE,
                 result |-> Null ]
    /\ refs = [ localQuestions |-> << >>, localIndex |-> 0,
                localAnswers |-> << >>, followupTimeout |-> Null ]
    /\ utterance = Null
    /\ recognition = Null
    /\ timers = {}
    /\ awaiting = NoneAwaited
    /\ clicks = 0
    /\ acted = << >>

\* what the clients send and the generator replies in these runs;
\* one follow-up reply lists four key points; each client applies for a role
\* of its own, so that a session's role tells which client created it
PairApplicant == [c \in PairSockets |->
                     IF c = "c1" THEN [role |-> "QA Engineer", resume |-> "cv"]
                     ELSE [role |-> "Designer", resume |-> "cv"]]
PairOpeningReplies ==
    { [kind |-> "json", question |-> "Walk me through your last project.",
                        key_topic |-> "apis"] }
PairFollowupReplies ==
    { [kind |-> "reject"],
      [kind |-> "json", followup |-> "Which tradeoffs did you make?",
                        key_points |-> <<"kp1", "kp2", "kp3", "kp4">>] }
PairRecommendationReplies ==
    { [kind |-> "json", value |-> [recommendation |-> "Pass", score |-> 80,
                                   summary |-> "Strong"]] }

PairNext ==
    \/ \E c \in PairSockets, t \in 0..MaxClock :
           create_session(c, PairApplicant[c].role, PairApplicant[c].resume,
                          DurationMin, t)
    \/ \E rid \in DOMAIN handlers, out \in PairOpeningReplies :
           create_session_resume(rid, out)
    \/ \E c \in PairSockets, sid \in SessionIdInputs, t \in Transcripts :
           /\ currentQuestion[c] # NoQuestion
           /\ candidate_answer(c, sid, currentQuestion[c], t)
    \/ \E rid \in DOMAIN handlers, out \in PairFollowupReplies :
           candidate_answer_resume(rid, out)
    \/ \E c \in PairSockets, sid \in SessionIdInputs :
           finish_interview(c, sid)
    \/ \E rid \in DOMAIN handlers, out \in PairRecommendationReplies :
           finish_interview_resume(rid, out)
    \/ \E rid \in DOMAIN handlers :
           finish_interview_inserted(rid, "ok")
    \/ \E c \in PairSockets : followup_watchdog(c)

PairSpec == PairInit /\ [][PairNext]_vars

\* ===================================================== Interview component
\* The Interview component of client/src/Interview.jsx.  It is a function
\* component: every render makes new startSession, speak, startListenAndSend
\* and endInterview functions that see the state of that render.  A
\* callback keeps the functions, and so the state, of the render it was
\* made in: the socket handlers, registered once by useEffect(..., []), keep
\* those of the first render; an utterance, a recognition and a timer keep
\* those of the render whose function made them.  Refs are shared by all
\* renders.  The state a callback sees is its closure.

\* the socket of the component
Me == "c1"
\* 'local-' + Date.now(), the id startSession gives a local interview
LocalSessionId == "local-0"
\* the id the coordinator gives the session it creates
RemoteSessionId == "s_0"
\* values of the prop role: one that ROLE_QUESTIONS knows and one it does not
ClientRoles == {"QA Engineer", "Astronaut"}
\* requests of one kind counted as awaiting an answer of the coordinator
MaxAwaiting == 1
\* answers localAnswersRef holds at most
MaxAnswers == 13
\* number of times the candidate presses a button
MaxClicks == 3

\* the ids of the questions of ROLE_QUESTIONS; a question's id stands for
\* the question and its text
ROLE_QUESTIONS ==
    [ r \in {"QA Engineer"} |->
        << "q1", "q2", "q3", "q4", "q5", "q6", "q7", "q8", "q9", "q10",
           "q11", "q12" >> ]

\* QuestionBank answering an unknown role with the bank of "QA Engineer"
QuestionBank_NoGenericDefault(r) ==
    IF r \in DOMAIN ROLE_QUESTIONS THEN ROLE_QUESTIONS[r]
    ELSE ROLE_QUESTIONS["QA Engineer"]

\* ROLE_QUESTIONS[role] || [{ id: 'dft1', ... }]
QuestionBank(r) ==
    IF r \in DOMAIN ROLE_QUESTIONS THEN ROLE_QUESTIONS[r] ELSE << "dft1" >>

\* ROLE_KEYWORDS, the keywords localAnalyze looks for
ROLE_KEYWORDS ==
    ( "Frontend Engineer" :>
        << "react", "vue", "angular", "javascript", "css", "html",
           "accessibility", "performance", "webpack", "vite" >>
   @@ "Backend Engineer" :>
        << "api", "database", "sql", "nosql", "caching", "latency",
           "scalability", "node", "go", "java" >>
   @@ "Fullstack Engineer" :>
        << "api", "frontend", "backend", "deployment", "react", "node",
           "graphql", "rest" >>
   @@ "Data Scientist" :>
        << "model", "analysis", "feature", "pandas", "numpy", "ml",
           "metrics", "a/b", "data" >>
   @@ "Machine Learning Engineer" :>
        << "model", "inference", "feature store", "latency", "drift",
           "tracking", "mlflow" >>
   @@ "DevOps Engineer" :>
        << "ci", "cd", "kubernetes", "docker", "monitoring", "slo", "sla",
           "alerts" >>
   @@ "Mobile Engineer" :>
        << "android", "ios", "swift", "kotlin", "layout", "memory",
           "performance" >>
   @@ "QA Engineer" :>
        << "test", "automation", "flaky", "coverage", "ci", "selenium",
           "cypress" >>
   @@ "Security Engineer" :>
        << "vulnerability", "threat", "sec", "csrf", "xss", "encryption",
           "auth", "oauth" >>
   @@ "Product Manager" :>
        << "metric", "user", "roadmap", "stakeholder", "experiment",
           "growth" >> )

\* what the recognition can hear in the runs of the scorer: nothing, one
\* word, a sentence with keywords in upper and lower case, words
\* separated by two spaces and a line break, and an answer of 100 words
\* that holds every keyword of "Backend Engineer"
LongAnswer ==
    "api database sql nosql caching latency scalability node go java go go go go go go go go go go go go go go go go go go go go go go go go go go go go go go go go go go go go go go go go go go go go go go go go go go go go go go go go go go go go go go go go go go go go go go go go go go go go go go go go go go go go go go go go go go"
SampleTranscripts ==
    { "",
      "t1",
      "I used caching and SQL to reduce latency",
      "We built  a GraphQL API\nwith Node",
      LongAnswer }

\* the characters of a string, one by one (a string of TLA+ cannot be
\* indexed): of the transcripts and of the keywords
Chars(s) ==
    CASE s = "" ->
           <<  >>
      [] s = "t1" ->
           << "t", "1" >>
      [] s = "I used caching and SQL to reduce latency" ->
           << "I", " ", "u", "s", "e", "d", " ", "c", "a", "c", "h", "i",
              "n", "g", " ", "a", "n", "d", " ", "S", "Q", "L", " ", "t",
              "o", " ", "r", "e", "d", "u", "c", "e", " ", "l", "a", "t",
              "e", "n", "c", "y" >>
      [] s = "We built  a GraphQL API\nwith Node" ->
           << "W", "e", " ", "b", "u", "i", "l", "t", " ", " ", "a", " ",
              "G", "r", "a", "p", "h", "Q", "L", " ", "A", "P", "I", "\n",
              "w", "i", "t", "h", " ", "N", "o", "d", "e" >>
      [] s = LongAnswer ->
           << "a", "p", "i", " ", "d", "a", "t", "a", "b", "a", "s", "e",
              " ", "s", "q", "l", " ", "n", "o", "s", "q", "l", " ", "c",
              "a", "c", "h", "i", "n", "g", " ", "l", "a", "t", "e", "n",
              "c", "y", " ", "s", "c", "a", "l", "a", "b", "i", "l", "i",
              "t", "y", " ", "n", "o", "d", "e", " ", "g", "o", " ", "j",
              "a", "v", "a", " ", "g", "o", " ", "g", "o", " ", "g", "o",
              " ", "g", "o", " ", "g", "o", " ", "g", "o", " ", "g", "o",
              " ", "g", "o", " ", "g", "o", " ", "g", "o", " ", "g", "o",
              " ", "g", "o", " ", "g", "o", " ", "g", "o", " ", "g", "o",
              " ", "g", "o", " ", "g", "o", " ", "g", "o", " ", "g", "o",
              " ", "g", "o", " ", "g", "o", " ", "g", "o", " ", "g", "o",
              " ", "g", "o", " ", "g", "o", " ", "g", "o", " ", "g", "o",
              " ", "g", "o", " ", "g", "o", " ", "g", "o", " ", "g", "o",
              " ", "g", "o", " ", "g", "o", " ", "g", "o", " ", "g", "o",
              " ", "g", "o", " ", "g", "o", " ", "g", "o", " ", "g", "o",
              " ", "g", "o", " ", "g", "o", " ", "g", "o", " ", "g", "o",
              " ", "g", "o", " ", "g", "o", " ", "g", "o", " ", "g", "o",
              " ", "g", "o", " ", "g", "o", " ", "g", "o", " ", "g", "o",
              " ", "g", "o", " ", "g", "o", " ", "g", "o", " ", "g", "o",
              " ", "g", "o", " ", "g", "o", " ", "g", "o", " ", "g", "o",
              " ", "g", "o", " ", "g", "o", " ", "g", "o", " ", "g", "o",
              " ", "g", "o", " ", "g", "o", " ", "g", "o", " ", "g", "o",
              " ", "g", "o", " ", "g", "o", " ", "g", "o", " ", "g", "o",
              " ", "g", "o", " ", "g", "o", " ", "g", "o", " ", "g", "o",
              " ", "g", "o", " ", "g", "o", " ", "g", "o", " ", "g", "o",
              " ", "g", "o", " ", "g", "o", " ", "g", "o", " ", "g", "o",
              " ", "g", "o", " ", "g", "o", " ", "g", "o", " ", "g", "o",
              " ", "g", "o", " ", "g", "o", " ", "g", "o" >>
      [] s = "react" ->
           << "r", "e", "a", "c", "t" >>
      [] s = "vue" ->
           << "v", "u", "e" >>
      [] s = "angular" ->
           << "a", "n", "g", "u", "l", "a", "r" >>
      [] s = "javascript" ->
           << "j", "a", "v", "a", "s", "c", "r", "i", "p", "t" >>
      [] s = "css" ->
           << "c", "s", "s" >>
      [] s = "html" ->
           << "h", "t", "m", "l" >>
      [] s = "accessibility" ->
           << "a", "c", "c", "e", "s", "s", "i", "b", "i", "l", "i", "t",
              "y" >>
      [] s = "performance" ->
           << "p", "e", "r", "f", "o", "r", "m", "a", "n", "c", "e" >>
      [] s = "webpack" ->
           << "w", "e", "b", "p", "a", "c", "k" >>
      [] s = "vite" ->
           << "v", "i", "t", "e" >>
      [] s = "api" ->
           << "a", "p", "i" >>
      [] s = "database" ->
           << "d", "a", "t", "a", "b", "a", "s", "e" >>
      [] s = "sql" ->
           << "s", "q", "l" >>
      [] s = "nosql" ->
           << "n", "o", "s", "q", "l" >>
      [] s = "caching" ->
           << "c", "a", "c", "h", "i", "n", "g" >>
      [] s = "latency" ->
           << "l", "a", "t", "e", "n", "c", "y" >>
      [] s = "scalability" ->
           << "s", "c", "a", "l", "a", "b", "i", "l", "i", "t", "y" >>
      [] s = "node" ->
           << "n", "o", "d", "e" >>
      [] s = "go" ->
           << "g", "o" >>
      [] s = "java" ->
           << "j", "a", "v", "a" >>
      [] s = "frontend" ->
           << "f", "r", "o", "n", "t", "e", "n", "d" >>
      [] s = "backend" ->
           << "b", "a", "c", "k", "e", "n", "d" >>
      [] s = "deployment" ->
           << "d", "e", "p", "l", "o", "y", "m", "e", "n", "t" >>
      [] s = "graphql" ->
           << "g", "r", "a", "p", "h", "q", "l" >>
      [] s = "rest" ->
           << "r", "e", "s", "t" >>
      [] s = "model" ->
           << "m", "o", "d", "e", "l" >>
      [] s = "analysis" ->
           << "a", "n", "a", "l", "y", "s", "i", "s" >>
      [] s = "feature" ->
           << "f", "e", "a", "t", "u", "r", "e" >>
      [] s = "pandas" ->
           << "p", "a", "n", "d", "a", "s" >>
      [] s = "numpy" ->
           << "n", "u", "m", "p", "y" >>
      [] s = "ml" ->
           << "m", "l" >>
      [] s = "metrics" ->
           << "m", "e", "t", "r", "i", "c", "s" >>
      [] s = "a/b" ->
           << "a", "/", "b" >>
      [] s = "data" ->
           << "d", "a", "t", "a" >>
      [] s = "inference" ->
           << "i", "n", "f", "e", "r", "e", "n", "c", "e" >>
      [] s = "feature store" ->
           << "f", "e", "a", "t", "u", "r", "e", " ", "s", "t", "o", "r",
              "e" >>
      [] s = "drift" ->
           << "d", "r", "i", "f", "t" >>
      [] s = "tracking" ->
           << "t", "r", "a", "c", "k", "i", "n", "g" >>
      [] s = "mlflow" ->
           << "m", "l", "f", "l", "o", "w" >>
      [] s = "ci" ->
           << "c", "i" >>
      [] s = "cd" ->
           << "c", "d" >>
      [] s = "kubernetes" ->
           << "k", "u", "b", "e", "r", "n", "e", "t", "e", "s" >>
      [] s = "docker" ->
           << "d", "o", "c", "k", "e", "r" >>
      [] s = "monitoring" ->
           << "m", "o", "n", "i", "t", "o", "r", "i", "n", "g" >>
      [] s = "slo" ->
           << "s", "l", "o" >>
      [] s = "sla" ->
           << "s", "l", "a" >>
      [] s = "alerts" ->
           << "a", "l", "e", "r", "t", "s" >>
      [] s = "android" ->
           << "a", "n", "d", "r", "o", "i", "d" >>
      [] s = "ios" ->
           << "i", "o", "s" >>
      [] s = "swift" ->
           << "s", "w", "i", "f", "t" >>
      [] s = "kotlin" ->
           << "k", "o", "t", "l", "i", "n" >>
      [] s = "layout" ->
           << "l", "a", "y", "o", "u", "t" >>
      [] s = "memory" ->
           << "m", "e", "m", "o", "r", "y" >>
      [] s = "test" ->
           << "t", "e", "s", "t" >>
      [] s = "automation" ->
           << "a", "u", "t", "o", "m", "a", "t", "i", "o", "n" >>
      [] s = "flaky" ->
           << "f", "l", "a", "k", "y" >>
      [] s = "coverage" ->
           << "c", "o", "v", "e", "r", "a", "g", "e" >>
      [] s = "selenium" ->
           << "s", "e", "l", "e", "n", "i", "u", "m" >>
      [] s = "cypress" ->
           << "c", "y", "p", "r", "e", "s", "s" >>
      [] s = "vulnerability" ->
           << "v", "u", "l", "n", "e", "r", "a", "b", "i", "l", "i", "t",
              "y" >>
      [] s = "threat" ->
           << "t", "h", "r", "e", "a", "t" >>
      [] s = "sec" ->
           << "s", "e", "c" >>
      [] s = "csrf" ->
           << "c", "s", "r", "f" >>
      [] s = "xss" ->
           << "x", "s", "s" >>
      [] s = "encryption" ->
           << "e", "n", "c", "r", "y", "p", "t", "i", "o", "n" >>
      [] s = "auth" ->
           << "a", "u", "t", "h" >>
      [] s = "oauth" ->
           << "o", "a", "u", "t", "h" >>
      [] s = "metric" ->
           << "m", "e", "t", "r", "i", "c" >>
      [] s = "user" ->
           << "u", "s", "e", "r" >>
      [] s = "roadmap" ->
           << "r", "o", "a", "d", "m", "a", "p" >>
      [] s = "stakeholder" ->
           << "s", "t", "a", "k", "e", "h", "o", "l", "d", "e", "r" >>
      [] s = "experiment" ->
           << "e", "x", "p", "e", "r", "i", "m", "e", "n", "t" >>
      [] s = "growth" ->
           << "g", "r", "o", "w", "t", "h" >>


\* the characters /\s/ matches
Whitespace == {" ", "\t", "\n", "\r", "\f"}

UpperCase ==
    << "A", "B", "C", "D", "E", "F", "G", "H", "I", "J", "K", "L", "M",
       "N", "O", "P", "Q", "R", "S", "T", "U", "V", "W", "X", "Y", "Z" >>
LowerCase ==
    << "a", "b", "c", "d", "e", "f", "g", "h", "i", "j", "k", "l", "m",
       "n", "o", "p", "q", "r", "s", "t", "u", "v", "w", "x", "y", "z" >>

UpperLetters == { UpperCase[n] : n \in DOMAIN UpperCase }

\* the lower-case letter of every upper-case letter
LowerOf ==
    [ c \in UpperLetters |->
        LowerCase[CHOOSE n \in DOMAIN UpperCase : UpperCase[n] = c] ]

\* toLowerCase leaving upper case as it is
toLowerCase_Identity(s) == s

\* joined.toLowerCase(), on the characters of the string
toLowerCase(s) ==
    [ i \in DOMAIN s |->
        IF s[i] \in UpperLetters THEN LowerOf[s[i]] ELSE s[i] ]

\* answers.map(a => a.transcript || '').join(' '), as characters
RECURSIVE join(_)
join(answers) ==
    IF answers = << >> THEN << >>
    ELSE IF Len(answers) = 1 THEN Chars(Head(answers).transcript)
    ELSE Chars(Head(answers).transcript) \o << " " >> \o join(Tail(answers))

\* joined.split(/\s+/).filter(Boolean).length: the number of maximal
\* runs of characters that are not whitespace
TotalWords(joined) ==
    Cardinality({ i \in DOMAIN joined :
                    /\ joined[i] \notin Whitespace
                    /\ (i = 1 \/ joined[i - 1] \in Whitespace) })

\* s.includes(k): k starts at some position of s
includes(s, k) ==
    \/ k = << >>
    \/ \E i \in 1..(Len(s) - Len(k) + 1) :
          /\ s[i] = k[1]
          /\ \A j \in 2..Len(k) : s[i + j - 1] = k[j]

\* ROLE_KEYWORDS[role] || []
Keywords(r) == IF r \in DOMAIN ROLE_KEYWORDS THEN ROLE_KEYWORDS[r] ELSE << >>

\* keywords.length
KeywordCount(r) == Len(Keywords(r))

\* the characters of the keywords of every role of ROLE_KEYWORDS
KeywordChars ==
    [ r \in DOMAIN ROLE_KEYWORDS |->
        [ n \in DOMAIN ROLE_KEYWORDS[r] |-> Chars(ROLE_KEYWORDS[r][n]) ] ]

\* matches: one more for every keyword the lower-cased text includes
KeywordMatches(joined, r) ==
    LET lower == toLowerCase(joined)
        ks == IF r \in DOMAIN KeywordChars THEN KeywordChars[r] ELSE << >>
    IN Cardinality({ n \in DOMAIN ks : includes(lower, ks[n]) })

Min(a, b) == IF a < b THEN a ELSE b

\* avgWords with Math.floor in the place of Math.round
AvgWords_Floor(totalWords, answerCount) ==
    IF answerCount = 0 THEN 0 ELSE totalWords \div answerCount

\* avgWords: Math.round(totalWords / answerCount), or 0 without answers
AvgWords(totalWords, answerCount) ==
    IF answerCount = 0 THEN 0
    ELSE (2 * totalWords + answerCount) \div (2 * answerCount)

\* keywordScore: Math.round((matches / keywords.length) * 100), or 50 for
\* a role without keywords
keywordScore(matches, keywordCount) ==
    IF keywordCount > 0
    THEN (200 * matches + keywordCount) \div (2 * keywordCount)
    ELSE 50

\* score: Math.min(100, Math.round((Math.min(avgWords,120)/120)*60
\*                                 + keywordScore*0.4))
Score(avgWords, ks) ==
    Min(100, (5 * Min(avgWords, 120) + 4 * ks + 5) \div 10)

\* the recommendation with the thresholds 70 and 45 exclusive
Tier_Exclusive(score) ==
    IF score > 70 THEN "Proceed to next-round interview"
    ELSE IF score > 45 THEN "Consider technical coaching"
    ELSE "Needs further development"

\* recommendation: the tier of the score
Tier(score) ==
    IF score >= 70 THEN "Proceed to next-round interview"
    ELSE IF score >= 45 THEN "Consider technical coaching"
    ELSE "Needs further development"

\* the weakness of coverage given whatever the number of answers
CoverageWeakness_Always(answerCount) ==
    << "Try to cover more topics in depth" >>

\* if (answerCount < 6) weaknesses.push('Try to cover more topics in depth')
CoverageWeakness(answerCount) ==
    IF answerCount < 6 THEN << "Try to cover more topics in depth" >>
    ELSE << >>

\* what localAnalyze returns for the numbers it computed
Analysis(answerCount, totalWords, matches, r) ==
    LET avgWords == AvgWords(totalWords, answerCount)
        ks == keywordScore(matches, KeywordCount(r))
        score == Score(avgWords, ks)
    IN [ recommendation |-> Tier(score),
         score |-> score,
         summary |-> "You answered " \o ToString(answerCount)
                     \o " questions with an average of " \o ToString(avgWords)
                     \o " words per answer. Detected " \o ToString(matches)
                     \o " relevant keywords for " \o r \o ".",
         strengths |->
             (IF avgWords > 30 THEN << "Gave detailed answers" >> ELSE << >>)
             \o (IF ks > 50 THEN << "Used relevant domain terms" >>
                 ELSE << >>),
         weaknesses |->
             (IF avgWords > 30 THEN << >>
              ELSE << "Answers were brief; provide more detail" >>)
             \o (IF ks > 50 THEN << >>
                 ELSE << "Mention more role-specific terminology and techniques" >>)
             \o CoverageWeakness(answerCount) ]

\* localAnalyze keeping its count of matches from one call to the next
localAnalyze_Carrying(answers, r) ==
    LET joined == join(answers)
    IN Analysis(Len(answers), TotalWords(joined),
                KeywordMatches(joined, r)
                    + (IF state.result = Null THEN 0 ELSE 1), r)

\* localAnalyze: the heuristic scorer
localAnalyze(answers, r) ==
    LET joined == join(answers)
    IN Analysis(Len(answers), TotalWords(joined), KeywordMatches(joined, r), r)

\* the state the functions of the first render see
FirstRender ==
    [ socketConnected |-> FALSE, socket |-> FALSE, sessionId |-> NoSession,
      currentQuestion |-> NoQuestion ]

\* the state the functions of the latest render see
Render ==
    [ socketConnected |-> state.socketConnected, socket |-> TRUE,
      sessionId |-> state.sessionId, currentQuestion |-> currentQuestion[Me] ]

\* sessionId.startsWith('local-')
IsLocal(id) == id = LocalSessionId

\* speak: the utterance handed to speechSynthesis, with the closure of its
\* onend callback; cancel() drops the utterance that was being spoken
speak(text, autoListen, cl) ==
    [ text |-> text, autoListen |-> autoListen, closure |-> cl ]

speakQuestion(text, cl) == speak(text, TRUE, cl)

Spoken(u) == [ do |-> "speak", text |-> u.text, autoListen |-> u.autoListen ]

\* socket.emit of one more request of the kind
Await(kind) == [awaiting EXCEPT ![kind] = Min(@ + 1, MaxAwaiting)]
\* the coordinator answered one request of the kind
Answered(kind) == [awaiting EXCEPT ![kind] = @ - 1]

\* events the coordinator sends
FirstQuestions == { [id |-> "q_1", text |-> "Walk me through your last project."] }
FollowupEvents ==
    { [id |-> "q_2", text |-> "Which tradeoffs did you make?"],
      CannedFollowup }
FinishedRecommendations ==
    { Null,
      [recommendation |-> "Pass", score |-> 80, summary |-> "Strong"] }

serverVars == <<now, objs, sessions, rooms, handlers, nreq, emitted,
                interviews, mutLog>>

\* clearTimeout without effect
clearTimeout_Nothing(t) == timers

\* clearTimeout(followupTimeoutRef.current): the pending timers without the
\* one the ref holds.  The ref keeps the id of a timer that fired or was
\* cleared; it is only ever passed to clearTimeout again, which ignores
\* it, so the ref of the model is null then.
clearTimeout(t) == timers \ {t}

\* followupTimeoutRef after timer t fired
Fired(t) == [refs EXCEPT !.followupTimeout = IF @ = t THEN Null ELSE @]

\* the socket's connect and disconnect handlers
connect ==
    /\ ~state.socketConnected
    /\ state' = [state EXCEPT !.socketConnected = TRUE]
    /\ acted' = << >>
    /\ UNCHANGED <<props, refs, utterance, recognition, timers, awaiting,
                   clicks, currentQuestion>>
    /\ UNCHANGED serverVars

disconnect ==
    /\ state.socketConnected
    /\ state' = [state EXCEPT !.socketConnected = FALSE]
    /\ acted' = << >>
    /\ UNCHANGED <<props, refs, utterance, recognition, timers, awaiting,
                   clicks, currentQuestion>>
    /\ UNCHANGED serverVars

\* startSession, called by the buttons "Start Interview" and "Force start"
\* of the latest render, the media stream being there
startSession ==
    /\ clicks < MaxClicks
    /\ LET cl == Render IN
       IF cl.socketConnected /\ cl.socket
       THEN /\ acted' = << [ do |-> "emit", event |-> "create_session",
                            role |-> props.role,
                            durationMin |-> DurationMin ] >>
            /\ awaiting' = Await("create_session")
            /\ UNCHANGED <<state, refs, utterance, currentQuestion>>
       ELSE LET qset == QuestionBank(props.role)
                first == qset[1]
            IN /\ refs' = [refs EXCEPT !.localQuestions = qset,
                                       !.localIndex = 0,
                                       !.localAnswers = << >>]
               /\ state' = [state EXCEPT !.sessionId = LocalSessionId,
                                         !.sessionActive = TRUE]
               /\ currentQuestion' = [currentQuestion EXCEPT ![Me] = first]
               /\ utterance' = speakQuestion(first, cl)
               /\ acted' = << Spoken(speakQuestion(first, cl)) >>
               /\ UNCHANGED awaiting
    /\ clicks' = clicks + 1
    /\ UNCHANGED <<props, recognition, timers>>
    /\ UNCHANGED serverVars

\* ut.onend: the utterance was spoken to its end; after a question,
\* startListenAndSend of the utterance's render starts listening (the
\* 200 ms between the two are part of the step)
utterance_onend ==
    /\ utterance # Null
    /\ utterance' = Null
    /\ IF utterance.autoListen
       THEN /\ recognition' = [closure |-> utterance.closure, auto |-> TRUE]
            /\ acted' = << [do |-> "listen"] >>
       ELSE /\ acted' = << >>
            /\ UNCHANGED recognition
    /\ UNCHANGED <<props, state, refs, timers, awaiting, clicks,
                   currentQuestion>>
    /\ UNCHANGED serverVars

\* the button "Capture answer": startListenAndSend of the latest render
capture_answer ==
    /\ clicks < MaxClicks
    /\ recognition' = [closure |-> Render, auto |-> FALSE]
    /\ recognition' # recognition
    /\ acted' = << [do |-> "listen"] >>
    /\ clicks' = clicks + 1
    /\ UNCHANGED <<props, state, refs, utterance, timers, awaiting,
                   currentQuestion>>
    /\ UNCHANGED serverVars

\* rec.onresult: the recognition heard a transcript
rec_onresult(transcript) ==
    /\ recognition # Null
    /\ Len(refs.localAnswers) < MaxAnswers
    /\ recognition' = Null
    /\ LET cl == recognition.closure
           \* the questionId pushed with the transcript is read by nothing
           answer == [transcript |-> transcript]
           nextIndex == refs.localIndex + 1
       IN IF /\ cl.socketConnected /\ cl.socket
             /\ cl.sessionId # NoSession /\ cl.currentQuestion # NoQuestion
          THEN \* forward the answer and start the follow-up watchdog
               /\ refs' = [refs EXCEPT
                      !.localAnswers = Append(@, answer),
                      !.followupTimeout = [kind |-> "followup", closure |-> cl]]
               /\ acted' = << [ do |-> "emit", event |-> "candidate_answer",
                               sessionId |-> cl.sessionId,
                               questionId |-> cl.currentQuestion,
                               transcript |-> transcript ] >>
               /\ timers' = clearTimeout(refs.followupTimeout)
                                \cup {[kind |-> "followup", closure |-> cl]}
               /\ awaiting' = IF cl.sessionId = RemoteSessionId
                              THEN Await("candidate_answer") ELSE awaiting
               /\ UNCHANGED <<state, utterance, currentQuestion>>
          ELSE IF IsLocal(cl.sessionId)
          THEN IF nextIndex < Len(refs.localQuestions)
               THEN LET nextQ == refs.localQuestions[nextIndex + 1] IN
                    /\ refs' = [refs EXCEPT !.localAnswers = Append(@, answer),
                                            !.localIndex = nextIndex]
                    /\ currentQuestion' = [currentQuestion EXCEPT ![Me] = nextQ]
                    /\ utterance' = speakQuestion(nextQ, cl)
                    /\ acted' = << Spoken(speakQuestion(nextQ, cl)) >>
                    /\ UNCHANGED <<state, timers, awaiting>>
               ELSE LET analysis == localAnalyze(Append(refs.localAnswers, answer),
                                                 props.role)
                        u == speak("Interview complete. " \o analysis.summary
                                   \o " Recommendation: "
                                   \o analysis.recommendation
                                   \o ". Overall score: "
                                   \o ToString(analysis.score)
                                   \o " out of 100.", FALSE, cl)
                    IN /\ refs' = [refs EXCEPT !.localAnswers = Append(@, answer)]
                       /\ state' = [state EXCEPT !.interviewFinished = TRUE,
                                                 !.sessionActive = FALSE,
                                                 !.result = analysis]
                       /\ utterance' = u
                       /\ acted' = << [do |-> "localAnalyze"], Spoken(u) >>
                       /\ UNCHANGED <<timers, awaiting, currentQuestion>>
          ELSE \* neither branch: the transcript is only shown
               /\ acted' = << >>
               /\ UNCHANGED <<state, refs, utterance, timers, awaiting,
                              currentQuestion>>
    /\ UNCHANGED <<props, clicks>>
    /\ UNCHANGED serverVars

\* rec.onend or rec.onerror without a result: listening ends
rec_onend ==
    /\ recognition # Null
    /\ recognition' = Null
    /\ acted' = << >>
    /\ UNCHANGED <<props, state, refs, utterance, timers, awaiting, clicks,
                   currentQuestion>>
    /\ UNCHANGED serverVars

\* the watchdog starting over at the first entry whenever it fires
WatchdogIndex_Restart(empty) == 0

\* the cursor the watchdog advances from: 0 when it seeds the bank, else
\* localIndexRef.current
WatchdogIndex(empty) == IF empty THEN 0 ELSE refs.localIndex

\* the follow-up watchdog set by rec.onresult fires after 5000 ms
followup_timeout ==
    \E t \in timers :
    /\ t.kind = "followup"
    /\ timers' = timers \ {t}
    /\ LET cl == t.closure
           empty == refs.localQuestions = << >>
           questions == IF empty THEN QuestionBank(props.role)
                        ELSE refs.localQuestions
           index == WatchdogIndex(empty)
           nextIndex == index + 1
       IN IF nextIndex < Len(questions)
          THEN LET nextQ == questions[nextIndex + 1] IN
               /\ refs' = [Fired(t) EXCEPT !.localQuestions = questions,
                                           !.localIndex = nextIndex]
               /\ currentQuestion' = [currentQuestion EXCEPT ![Me] = nextQ]
               /\ utterance' = speakQuestion(nextQ, cl)
               /\ acted' = << Spoken(speakQuestion(nextQ, cl)) >>
          ELSE LET u == speak("I have no further questions at this time.",
                              FALSE, cl)
               IN /\ refs' = [Fired(t) EXCEPT !.localQuestions = questions,
                                              !.localIndex = index]
                  /\ utterance' = u
                  /\ acted' = << Spoken(u) >>
                  /\ UNCHANGED currentQuestion
    /\ UNCHANGED <<props, state, recognition, awaiting, clicks>>
    /\ UNCHANGED serverVars

\* finishing without the analysis: the result stays as it was
FinishLocally_NoResult(cl) ==
    LET u == speak("Interview finished.", FALSE, cl)
    IN /\ state' = [state EXCEPT !.interviewFinished = TRUE,
                                 !.sessionActive = FALSE]
       /\ utterance' = u
       /\ acted' = << Spoken(u) >>

\* what endInterview and the finish watchdog do to finish locally
FinishLocally(cl) ==
    LET analysis == localAnalyze(refs.localAnswers, props.role)
        u == speak("Interview finished. " \o analysis.summary
                   \o " Recommendation: " \o analysis.recommendation, FALSE, cl)
    IN /\ state' = [state EXCEPT !.result = analysis,
                                 !.interviewFinished = TRUE,
                                 !.sessionActive = FALSE]
       /\ utterance' = u
       /\ acted' = << [do |-> "localAnalyze"], Spoken(u) >>

\* the finish watchdog set by endInterview fires after 6000 ms
finish_timeout ==
    \E t \in timers :
    /\ t.kind = "finish"
    /\ timers' = timers \ {t}
    /\ FinishLocally(t.closure)
    /\ refs' = Fired(t)
    /\ UNCHANGED <<props, recognition, awaiting, clicks, currentQuestion>>
    /\ UNCHANGED serverVars

\* endInterview, called by the button "Finish interview" of the latest
\* render; the button is disabled unless sessionActive
endInterview ==
    /\ state.sessionActive
    /\ clicks < MaxClicks
    /\ LET cl == Render IN
       IF IsLocal(cl.sessionId)
       THEN /\ FinishLocally(cl)
            /\ UNCHANGED <<refs, timers, awaiting>>
       ELSE IF cl.socket /\ cl.sessionId # NoSession
       THEN /\ acted' = << [ do |-> "emit", event |-> "finish_interview",
                            sessionId |-> cl.sessionId ] >>
            /\ awaiting' = Await("finish_interview")
            /\ refs' = [refs EXCEPT
                   !.followupTimeout = [kind |-> "finish", closure |-> cl]]
            /\ timers' = clearTimeout(refs.followupTimeout)
                             \cup {[kind |-> "finish", closure |-> cl]}
            /\ UNCHANGED <<state, utterance>>
       ELSE /\ acted' = << >>
            /\ UNCHANGED <<state, refs, utterance, timers, awaiting>>
    /\ clicks' = clicks + 1
    /\ UNCHANGED <<props, recognition, currentQuestion>>
    /\ UNCHANGED serverVars

\* the socket's session_created handler, a function of the first render
on_session_created(firstQuestion) ==
    /\ state.socketConnected
    /\ awaiting.create_session > 0
    /\ awaiting' = Answered("create_session")
    /\ timers' = clearTimeout(refs.followupTimeout)
    /\ refs' = [refs EXCEPT !.followupTimeout = Null]
    /\ state' = [state EXCEPT !.sessionId = RemoteSessionId,
                              !.sessionActive = TRUE]
    /\ currentQuestion' = [currentQuestion EXCEPT ![Me] = firstQuestion.id]
    /\ utterance' = speakQuestion(firstQuestion.text, FirstRender)
    /\ acted' = << Spoken(speakQuestion(firstQuestion.text, FirstRender)) >>
    /\ UNCHANGED <<props, recognition, clicks>>
    /\ UNCHANGED serverVars

\* the followup handler without its clearTimeout
on_followup_NoClear(followup) ==
    /\ state.socketConnected
    /\ awaiting.candidate_answer > 0
    /\ awaiting' = Answered("candidate_answer")
    /\ IF followup.text # ""
       THEN /\ currentQuestion' = [currentQuestion EXCEPT ![Me] = followup.id]
            /\ utterance' = speakQuestion(followup.text, FirstRender)
            /\ acted' = << Spoken(speakQuestion(followup.text, FirstRender)) >>
       ELSE /\ acted' = << >>
            /\ UNCHANGED <<utterance, currentQuestion>>
    /\ UNCHANGED <<props, state, refs, recognition, timers, clicks>>
    /\ UNCHANGED serverVars

\* the socket's followup handler, a function of the first render
on_followup(followup) ==
    /\ state.socketConnected
    /\ awaiting.candidate_answer > 0
    /\ awaiting' = Answered("candidate_answer")
    /\ timers' = clearTimeout(refs.followupTimeout)
    /\ refs' = [refs EXCEPT !.followupTimeout = Null]
    /\ IF followup.text # ""
       THEN /\ currentQuestion' = [currentQuestion EXCEPT ![Me] = followup.id]
            /\ utterance' = speakQuestion(followup.text, FirstRender)
            /\ acted' = << Spoken(speakQuestion(followup.text, FirstRender)) >>
       ELSE /\ acted' = << >>
            /\ UNCHANGED <<utterance, currentQuestion>>
    /\ UNCHANGED <<props, state, recognition, clicks>>
    /\ UNCHANGED serverVars

\* the socket's finished handler, a function of the first render
on_finished(recommendation) ==
    /\ state.socketConnected
    /\ awaiting.finish_interview > 0
    /\ awaiting' = Answered("finish_interview")
    /\ timers' = clearTimeout(refs.followupTimeout)
    /\ refs' = [refs EXCEPT !.followupTimeout = Null]
    /\ state' = [state EXCEPT !.interviewFinished = TRUE,
                              !.result = recommendation,
                              !.sessionActive = FALSE]
    /\ IF recommendation # Null /\ recommendation.summary # ""
       THEN LET u == speak("Interview complete. Summary: "
                           \o recommendation.summary, FALSE, FirstRender)
            IN /\ utterance' = u
               /\ acted' = << Spoken(u) >>
       ELSE /\ acted' = << >>
            /\ UNCHANGED utterance
    /\ UNCHANGED <<props, recognition, clicks, currentQuestion>>
    /\ UNCHANGED serverVars

ClientInit ==
    /\ ServerInit
    /\ \E r \in ClientRoles : Mount(r)

ClientNext ==
    \/ connect
    \/ disconnect
    \/ startSession
    \/ utterance_onend
    \/ capture_answer
    \/ \E t \in Transcripts : rec_onresult(t)
    \/ rec_onend
    \/ followup_timeout
    \/ finish_timeout
    \/ endInterview
    \/ \E q \in FirstQuestions : on_session_created(q)
    \/ \E f \in FollowupEvents : on_followup(f)
    \/ \E rec \in FinishedRecommendations : on_finished(rec)

ClientSpec == ClientInit /\ [][ClientNext]_vars

\* ------------------------------------------------------------ the scorer
\* localAnalyze applied to answers and roles of every kind: the component
\* holds a remote session whose answers were captured, and localAnalyze is
\* called on them as endInterview and the finish watchdog call it.  Here
\* acted is the log of the calls with what each returned.

\* answers in the list handed to localAnalyze
MaxScored == 2
\* calls of localAnalyze in one behaviour
MaxRuns == 2

\* roles with ten, eight and seven keywords, and a role without keywords
ScorerRoles ==
    {"Backend Engineer", "Fullstack Engineer", "QA Engineer", "Astronaut"}

\* the lists of up to MaxScored captured answers, and one list of six
AnswerLists ==
    UNION { [1..n -> { [transcript |-> t] : t \in SampleTranscripts }] :
              n \in 0..MaxScored }
    \cup { [i \in 1..6 |-> [transcript |-> "t1"]] }

ScorerInit ==
    /\ ServerInit
    /\ \E r \in ScorerRoles, answers \in AnswerLists, connected \in BOOLEAN :
          /\ props = [role |-> r]
          /\ state = [ socketConnected |-> connected,
                       sessionId |-> RemoteSessionId,
                       sessionActive |-> TRUE, interviewFinished |-> FALSE,
                       result |-> Null ]
          /\ refs = [ localQuestions |-> << >>, localIndex |-> 0,
                      localAnswers |-> answers, followupTimeout |-> Null ]
    /\ currentQuestion = [c \in Sockets |-> IF c = Me THEN "q_1" ELSE NoQuestion]
    /\ utterance = Null
    /\ recognition = Null
    /\ timers = {}
    /\ awaiting = NoneAwaited
    /\ clicks = 0
    /\ acted = << >>

\* const analysis = localAnalyze(localAnswersRef.current, role); setResult
analyze ==
    /\ Len(acted) < MaxRuns
    /\ LET analysis == localAnalyze(refs.localAnswers, props.role)
       IN /\ state' = [state EXCEPT !.result = analysis]
          /\ acted' = Append(acted, [do |-> "localAnalyze",
                                     returned |-> analysis])
    /\ UNCHANGED <<props, refs, utterance, recognition, timers, awaiting,
                   clicks, currentQuestion>>
    /\ UNCHANGED serverVars

ScorerNext == analyze

ScorerSpec == ScorerInit /\ [][ScorerNext]_vars

\* ================================================================= claims
Objs == DOMAIN objs
QuestionIds(s) == { s.questions[i].id : i \in DOMAIN s.questions }
\* the requests whose handler suspends in the step
Arriving == DOMAIN handlers' \ DOMAIN handlers
\* the requests whose handler ends in the step
Ending == DOMAIN handlers \ DOMAIN handlers'
\* finish_interview has completed on object o: the session is ended, holds
\* a recommendation, and no finish_interview on it is still running
FinishCompleted(o) ==
    /\ objs[o].ended
    /\ objs[o].recommendation # Null
    /\ \A r \in DOMAIN handlers :
          ~(handlers[r].kind = "finish_interview" /\ handlers[r].obj = o)

\* C1: a finish_interview that arrives for a session whose earlier
\* finish_interview has completed (ended is true) starts no generator call
\* and leaves the stored recommendation as it is.
C1_FinalizeIdempotent ==
    [][ \A r \in Arriving :
          LET h == handlers'[r] IN
          (h.kind = "finish_interview" /\ FinishCompleted(h.obj))
          => /\ h.pc # "awaitGenerator"
             /\ objs'[h.obj].recommendation = objs[h.obj].recommendation ]_vars

\* C2: every answer of a session names the id of one of the session's
\* questions.
C2_AnswersReferenceQuestions ==
    \A o \in Objs : \A i \in DOMAIN objs[o].answers :
        objs[o].answers[i].questionId \in QuestionIds(objs[o])

\* C3: two create_session requests never get the same session id.
C3_SessionIdsUnique ==
    \A o1, o2 \in Objs : o1 # o2 => objs[o1].id # objs[o2].id

\* C4: the pushes of two candidate_answer requests on the same session do
\* not interleave: between two pushes of one request there is no push of
\* another request on that session.
C4_AnswersSerialized ==
    \A i, j, k \in DOMAIN mutLog :
        ( /\ i < j /\ j < k
          /\ mutLog[i].obj = mutLog[k].obj /\ mutLog[j].obj = mutLog[i].obj
          /\ mutLog[i].rid = mutLog[k].rid )
        => mutLog[j].rid = mutLog[i].rid

\* C5: a candidate_answer or finish_interview handler on a known session
\* ends, whatever the generator did, by emitting its response: a followup,
\* respectively a finished event with the session ended.
C5_EveryRequestAnswered ==
    [][ \A r \in Ending :
          LET h == handlers[r] IN
          /\ h.kind = "candidate_answer" =>
                 /\ Len(emitted') = 1
                 /\ emitted'[1].type = "followup"
          /\ h.kind = "finish_interview" =>
                 /\ Len(emitted') = 1
                 /\ emitted'[1].type = "finished"
                 /\ objs'[h.obj].ended ]_vars

\* C6: a create_session handler emits nothing before the generator replied
\* and ends, whatever the generator did, with a session stored under its id
\* and exactly one session_created event, sent to the requesting socket,
\* whose firstQuestion.text is not empty.
C6_CreateAlwaysAnswers ==
    [][ /\ \A r \in Arriving :
              handlers'[r].kind = "create_session" => emitted' = << >>
        /\ \A r \in Ending :
              LET h == handlers[r] IN
              h.kind = "create_session" =>
                  /\ h.sessionId \in DOMAIN sessions'
                  /\ sessions'[h.sessionId] = h.obj
                  /\ objs'[h.obj].id = h.sessionId
                  /\ Len(emitted') = 1
                  /\ emitted'[1].type = "session_created"
                  /\ emitted'[1].sessionId = h.sessionId
                  /\ h.socket \in emitted'[1].to
                  /\ emitted'[1].firstQuestion.text # "" ]_vars

\* C6 witness: a create_session has just ended, announcing the default
\* question of the role "QA Engineer" for a session that is stored
C6_Witness ==
    /\ Len(emitted) = 1
    /\ emitted[1].type = "session_created"
    /\ emitted[1].sessionId \in DOMAIN sessions
    /\ emitted[1].firstQuestion.text =
           "Tell me about your experience relevant to the role of QA Engineer."

\* C7: when the generator call for the opening question fails or its reply
\* has no question, the firstQuestion of session_created has the text
\* "Tell me about your experience relevant to the role of <role>."
C7_DefaultOpeningQuestion ==
    [][ \A r \in Ending, out \in OpeningReplies :
          ( /\ (out.kind # "json" \/ out.question = "")
            /\ create_session_resume(r, out) )
          => LET role == objs[handlers[r].obj].role
             IN /\ Len(emitted') = 1
                /\ emitted'[1].type = "session_created"
                /\ emitted'[1].firstQuestion.text =
                     "Tell me about your experience relevant to the role of "
                        \o role \o "."
                /\ (role = "Backend Engineer" =>
                      emitted'[1].firstQuestion.text =
                        "Tell me about your experience relevant to the role of Backend Engineer.") ]_vars

\* C7 witness: a session for the role "Backend Engineer" with an empty
\* resume has just been announced with the default question
C7_Witness ==
    /\ Len(emitted) = 1
    /\ emitted[1].type = "session_created"
    /\ \E o \in Objs : /\ objs[o].id = emitted[1].sessionId
                       /\ objs[o].role = "Backend Engineer"
                       /\ objs[o].resume = ""
                       /\ objs[o].questions # << >>
    /\ emitted[1].firstQuestion.text =
           "Tell me about your experience relevant to the role of Backend Engineer."

\* C8: when the generator's reply holds no follow-up, candidate_answer
\* appends no question, the followup event carries no question text and
\* the session is not ended by it.
C8_NoFollowupAsksNothing ==
    [][ \A r \in Ending, out \in FollowupReplies :
          ( /\ out.kind # "reject"
            /\ FollowupText(out) = ""
            /\ candidate_answer_resume(r, out) )
          => LET o == handlers[r].obj
             IN /\ objs'[o].questions = objs[o].questions
                /\ objs'[o].ended = objs[o].ended
                /\ Len(emitted') = 1
                /\ emitted'[1].type = "followup"
                /\ emitted'[1].followup.text = "" ]_vars

\* C9: the recommendation of a session is null exactly when the session is
\* not ended.
C9_RecommendationIffEnded ==
    \A o \in Objs : (objs[o].recommendation = Null) <=> ~objs[o].ended

\* C10: a candidate_answer that arrives for a session whose finish_interview
\* has completed (ended is true) changes none of its questions, answers and
\* keyPoints.
C10_FinishedIsTerminal ==
    [][ \A r \in Arriving :
          LET h == handlers'[r] IN
          (h.kind = "candidate_answer" /\ FinishCompleted(h.obj))
          => /\ objs'[h.obj].questions = objs[h.obj].questions
             /\ objs'[h.obj].answers = objs[h.obj].answers
             /\ objs'[h.obj].keyPoints = objs[h.obj].keyPoints ]_vars

\* C11: every session in the store has at least one question, the
\* firstQuestion a create_session announces is questions[0] of the session
\* stored under the announced id, and questions[0] never changes afterwards.
C11_StoredSessionsHaveFirstQuestion ==
    [][ /\ \A id \in DOMAIN sessions' :
              objs'[sessions'[id]].questions # << >>
        /\ \A r \in Ending :
              handlers[r].kind = "create_session" =>
                  /\ Len(emitted') = 1
                  /\ emitted'[1].type = "session_created"
                  /\ emitted'[1].sessionId \in DOMAIN sessions'
                  /\ objs'[sessions'[emitted'[1].sessionId]].questions # << >>
                  /\ emitted'[1].firstQuestion =
                       objs'[sessions'[emitted'[1].sessionId]].questions[1]
        /\ \A o \in Objs :
              objs[o].questions # << >> =>
                  /\ objs'[o].questions # << >>
                  /\ objs'[o].questions[1] = objs[o].questions[1] ]_vars

\* C11 witness: a session with the role defaults has just been announced
\* and stored; its firstQuestion is the first of its three questions
C11_Witness ==
    /\ Len(emitted) = 1
    /\ emitted[1].type = "session_created"
    /\ emitted[1].sessionId \in DOMAIN sessions
    /\ Len(objs[sessions[emitted[1].sessionId]].questions) = 3
    /\ objs[sessions[emitted[1].sessionId]].questions[1] =
           emitted[1].firstQuestion

\* C12: a candidate_answer or finish_interview naming a session id that is
\* not in the store emits one error event to the requesting socket, starts
\* no generator call and leaves the store and every session as they were.
C12_UnknownSessionIsAnError ==
    [][ \A c \in Sockets, sid \in SessionIdInputs :
          ( /\ sid \notin DOMAIN sessions
            /\ \/ finish_interview(c, sid)
               \/ \E t \in Transcripts :
                     candidate_answer(c, sid, currentQuestion[c], t) )
          => /\ Len(emitted') = 1
             /\ emitted'[1].type = "error"
             /\ emitted'[1].to = {c}
             /\ handlers' = handlers
             /\ objs' = objs
             /\ sessions' = sessions ]_vars

\* C12 witness: an error event has just been sent while a session is stored
C12_Witness ==
    /\ Len(emitted) = 1
    /\ emitted[1].type = "error"
    /\ emitted[1].to = {"c1"}
    /\ DOMAIN sessions # {}

\* C13: when the generator's recommendation text does not parse,
\* finish_interview stores {recommendation: "Undetermined", score: 50,
\* summary: the text}, ends the session and returns that recommendation in
\* its finished event.
C13_UnparsableRecommendation ==
    [][ /\ \A r \in DOMAIN handlers, out \in RecommendationReplies :
              ( /\ out.kind = "raw"
                /\ finish_interview_resume(r, out) )
              => LET o == handlers[r].obj
                     u == [ recommendation |-> "Undetermined", score |-> 50,
                            summary |-> out.txt ]
                 IN /\ objs'[o].recommendation = u
                    /\ objs'[o].ended
                    /\ r \in DOMAIN handlers'
                    /\ handlers'[r].rec = u
        /\ \A r \in Ending :
              ( /\ handlers[r].kind = "finish_interview"
                /\ handlers[r].pc = "awaitInsert" )
              => /\ Len(emitted') = 1
                 /\ emitted'[1].type = "finished"
                 /\ emitted'[1].recommendation = handlers[r].rec ]_vars

\* C13 witness: a finished event carrying the Undetermined recommendation
\* with the generator's text as its summary, the session ended
C13_Witness ==
    /\ Len(emitted) = 1
    /\ emitted[1].type = "finished"
    /\ emitted[1].recommendation =
           [ recommendation |-> "Undetermined", score |-> 50,
             summary |-> "The candidate did fine." ]
    /\ \E o \in Objs : /\ objs[o].ended
                       /\ objs[o].recommendation = emitted[1].recommendation

\* C14: when the insert of finish_interview fails, the handler still ends
\* by emitting the finished event with the recommendation it computed, the
\* session stays ended, no row is written and the insert is not tried again.
C14_InsertFailureNotPropagated ==
    [][ \A r \in DOMAIN handlers :
          finish_interview_inserted(r, "fail")
          => LET h == handlers[r]
             IN /\ Len(emitted') = 1
                /\ emitted'[1].type = "finished"
                /\ emitted'[1].recommendation = h.rec
                /\ emitted'[1].to = RoomOf(h.sessionId)
                /\ objs[h.obj].ended
                /\ objs'[h.obj].ended
                /\ interviews' = interviews
                /\ r \notin DOMAIN handlers' ]_vars

\* C14 witness: a finished event with a recommendation has just been
\* emitted although no row was ever written
C14_Witness ==
    /\ Len(emitted) = 1
    /\ emitted[1].type = "finished"
    /\ emitted[1].recommendation # Null
    /\ interviews = {}
    /\ \E o \in Objs : objs[o].ended

\* ------------------------------------------------------ component claims
\* the step emits the event to the coordinator
Emits(event) ==
    \E i \in DOMAIN acted' : acted'[i].do = "emit" /\ acted'[i].event = event
\* the number of times the step runs localAnalyze
Analyses == Cardinality({ i \in DOMAIN acted' : acted'[i].do = "localAnalyze" })
\* the step speaks a question, and it is question q
Asks(q) ==
    /\ \E i \in DOMAIN acted' : acted'[i] = Spoken(speakQuestion(q, FirstRender))
    /\ utterance' # Null
    /\ utterance'.text = q
    /\ utterance'.autoListen

\* C15: startSession with the socket connected emits create_session and
\* neither seeds the local state nor speaks; with the socket not connected
\* it emits nothing, takes a local session id, sets localIndex to 0,
\* empties localAnswers and speaks the first question of the role's bank,
\* the generic default question when ROLE_QUESTIONS has no such role.
C15_StartSessionChoosesMode ==
    [][ startSession =>
          IF state.socketConnected
          THEN /\ acted' = << [ do |-> "emit", event |-> "create_session",
                                role |-> props.role, durationMin |-> 18 ] >>
               /\ refs' = refs
               /\ state' = state
               /\ utterance' = utterance
               /\ currentQuestion' = currentQuestion
          ELSE /\ \A i \in DOMAIN acted' : acted'[i].do # "emit"
               /\ state'.sessionId = "local-0"
               /\ state'.sessionActive
               /\ refs'.localIndex = 0
               /\ refs'.localAnswers = << >>
               /\ Asks(IF props.role = "QA Engineer" THEN "q1" ELSE "dft1")
               /\ refs'.localQuestions[1] = utterance'.text ]_vars

\* C15 witness: a component whose role ROLE_QUESTIONS does not know has
\* just started a local interview and speaks the generic default question
C15_Witness ==
    /\ props.role = "Astronaut"
    /\ ~state.socketConnected
    /\ state.sessionId = LocalSessionId
    /\ refs.localIndex = 0
    /\ refs.localAnswers = << >>
    /\ acted = << [do |-> "speak", text |-> "dft1", autoListen |-> TRUE] >>

\* C16: in a remote session with the socket connected, a transcript heard
\* by a recognition that started by itself after a question was spoken is
\* sent as candidate_answer with the session's id and the id of the
\* current question, and the follow-up watchdog is set.
C16_CapturedAnswersForwarded ==
    [][ \A t \in Transcripts :
          ( /\ state.sessionId = RemoteSessionId
            /\ state.socketConnected
            /\ recognition # Null
            /\ recognition.auto
            /\ rec_onresult(t) )
          => /\ acted' = << [ do |-> "emit", event |-> "candidate_answer",
                              sessionId |-> state.sessionId,
                              questionId |-> currentQuestion[Me],
                              transcript |-> t ] >>
             /\ refs'.followupTimeout # Null
             /\ refs'.followupTimeout.kind = "followup" ]_vars

\* C17: in a local interview on the role's bank of N questions, every
\* transcript heard is appended to localAnswers; before the N-th it makes
\* the component ask the next question of the bank and run no localAnalyze;
\* the N-th runs localAnalyze once and completes the interview.
C17_LocalAnswersAdvance ==
    [][ \A t \in Transcripts :
          ( /\ IsLocal(state.sessionId)
            /\ ~state.socketConnected
            /\ ~state.interviewFinished
            /\ refs.localQuestions = QuestionBank(props.role)
            /\ Len(refs.localAnswers) < Len(refs.localQuestions)
            /\ recognition # Null
            /\ rec_onresult(t) )
          => LET n == Len(refs.localQuestions)
                 k == Len(refs.localAnswers) + 1
             IN /\ Len(refs'.localAnswers) = k
                /\ IF k < n
                   THEN /\ Asks(refs.localQuestions[k + 1])
                        /\ Analyses = 0
                        /\ ~state'.interviewFinished
                   ELSE /\ Analyses = 1
                        /\ state'.interviewFinished
                        /\ ~state'.sessionActive
                        /\ state'.result # Null ]_vars

\* C18: when the follow-up watchdog fires in a remote session, the
\* component speaks a question of the bank of its role, whatever the role,
\* keeps its session id and emits no finish_interview.
C18_WatchdogAsksBankQuestion ==
    [][ ( /\ state.sessionId = RemoteSessionId
          /\ followup_timeout )
        => /\ \E i \in DOMAIN QuestionBank(props.role) :
                 Asks(QuestionBank(props.role)[i])
           /\ state'.sessionId = state.sessionId
           /\ ~Emits("finish_interview") ]_vars

\* the component with its timers fair: a timer that stays set fires
ClientLive ==
    /\ ClientSpec
    /\ WF_vars(followup_timeout)
    /\ WF_vars(finish_timeout)

\* the last step emitted finish_interview
FinishRequested ==
    \E i \in DOMAIN acted :
        acted[i].do = "emit" /\ acted[i].event = "finish_interview"

\* C19: after endInterview asked the coordinator to finish, the component
\* eventually has interviewFinished set.
C19_EndInterviewCompletes ==
    FinishRequested ~> state.interviewFinished

\* C20: in a remote session whose socket is disconnected, a transcript
\* heard by a recognition started in that state is appended to
\* localAnswers and followed by a question, a set watchdog or the
\* completion of the interview.
C20_DisconnectedAnswerProgresses ==
    [][ \A t \in Transcripts :
          ( /\ state.sessionId = RemoteSessionId
            /\ ~state.socketConnected
            /\ ~state.interviewFinished
            /\ recognition # Null
            /\ recognition.closure = Render
            /\ rec_onresult(t) )
          => /\ Len(refs'.localAnswers) = Len(refs.localAnswers) + 1
             /\ \/ refs'.followupTimeout # Null
                \/ \E i \in DOMAIN acted' : acted'[i].do = "speak"
                \/ state'.interviewFinished ]_vars

\* C21: speech output and speech input are never active at the same time:
\* no state has an utterance playing while a recognition is listening.
C21_SpeechAndListeningExclusive ==
    ~(utterance # Null /\ recognition # Null)

\* C22: at most one watchdog timer is pending, and the pending one is the
\* one followupTimeoutRef holds; in particular a follow-up watchdog and a
\* finish watchdog are never pending together.
C22_OneWatchdogPending ==
    /\ Cardinality(timers) <= 1
    /\ timers \subseteq {refs.followupTimeout}

\* a finish watchdog is pending after a follow-up watchdog was armed for a
\* captured answer and cleared by the arming
C22_Witness ==
    /\ \E t \in timers : t.kind = "finish"
    /\ Len(refs.localAnswers) >= 1
    /\ awaiting.candidate_answer > 0

\* C23: endInterview in a local session runs localAnalyze once over
\* localAnswers, sets result to what it returned with interviewFinished
\* set and sessionActive reset in the same step, speaks the summary,
\* emits no finish_interview and sets no timer.
C23_LocalEndInterviewCompletes ==
    [][ (endInterview /\ IsLocal(state.sessionId))
        => /\ Analyses = 1
           /\ state'.result = localAnalyze(refs.localAnswers, props.role)
           /\ state'.interviewFinished
           /\ ~state'.sessionActive
           /\ ~Emits("finish_interview")
           /\ timers' = timers
           /\ refs' = refs
           /\ awaiting' = awaiting ]_vars

\* a local session with a captured answer was finished by endInterview
C23_Witness ==
    /\ IsLocal(state.sessionId)
    /\ Len(refs.localAnswers) >= 1
    /\ state.interviewFinished
    /\ state.result = localAnalyze(refs.localAnswers, props.role)
    /\ timers = {}
    /\ acted = << [do |-> "localAnalyze"],
                  [ do |-> "speak",
                    text |-> "Interview finished. " \o state.result.summary
                             \o " Recommendation: "
                             \o state.result.recommendation,
                    autoListen |-> FALSE ] >>

\* C27: a pending finish watchdog stays pending in every step except its
\* own firing and the handling of the coordinator's finished event.
C27_FinishWatchdogOnlyClearedByFinished ==
    [][ (\E t \in timers : t.kind = "finish")
        => \/ \E t \in timers' : t.kind = "finish"
           \/ finish_timeout
           \/ \E rec \in FinishedRecommendations : on_finished(rec) ]_vars

\* the step is one of the late events: a transcript of a recognition in
\* flight, a timer that fires, a followup event
LateEvent ==
    \/ \E t \in Transcripts : rec_onresult(t)
    \/ followup_timeout
    \/ finish_timeout
    \/ \E f \in FollowupEvents : on_followup(f)

\* C28: once interviewFinished is set and no session was started since,
\* a late event speaks no question, appends no answer, forwards none and
\* does not run localAnalyze.
C28_NothingAfterCompletion ==
    [][ ( /\ state.interviewFinished
          /\ ~state.sessionActive
          /\ awaiting.create_session = 0
          /\ LateEvent )
        => /\ \A i \in DOMAIN acted' :
                 acted'[i].do = "speak" => ~acted'[i].autoListen
           /\ refs'.localAnswers = refs.localAnswers
           /\ ~Emits("candidate_answer")
           /\ Analyses = 0 ]_vars

\* C29: the followup handler leaves no timer pending, so the follow-up
\* watchdog of the answer cannot fire after it; the handler speaks nothing
\* but the follow-up it received and leaves the local questions and the
\* local cursor as they were.
C29_FollowupClearsWatchdog ==
    [][ \A f \in FollowupEvents :
          on_followup(f)
          => /\ timers' = {}
             /\ refs'.followupTimeout = Null
             /\ refs'.localIndex = refs.localIndex
             /\ refs'.localQuestions = refs.localQuestions
             /\ \A i \in DOMAIN acted' :
                   acted'[i] = Spoken(speakQuestion(f.text, FirstRender)) ]_vars

\* the follow-up of a forwarded answer was spoken; the watchdog never
\* fired (the local questions were never seeded) and no timer is pending
C29_Witness ==
    /\ state.sessionId = RemoteSessionId
    /\ Len(refs.localAnswers) >= 1
    /\ acted = << Spoken(speakQuestion("Which tradeoffs did you make?",
                                       FirstRender)) >>
    /\ timers = {}
    /\ refs.localQuestions = << >>
    /\ refs.localIndex = 0
    /\ ~state.interviewFinished

\* C30: when the generator's follow-up reply is not JSON and its first
\* line is not empty, candidate_answer appends that line to the session's
\* questions as a new question with the next id, emits that question as
\* the followup to the session's room, adds no key point and emits no
\* error.
C30_RawFollowupFirstLine ==
    [][ \A r \in Ending, out \in FollowupReplies :
          ( /\ out.kind = "raw"
            /\ out.line1 # ""
            /\ candidate_answer_resume(r, out) )
          => LET o == handlers[r].obj
                 n == Len(objs[o].questions)
             IN /\ Len(objs'[o].questions) = n + 1
                /\ SubSeq(objs'[o].questions, 1, n) = objs[o].questions
                /\ objs'[o].questions[n + 1].text = out.line1
                /\ objs'[o].questions[n + 1].id = QId(n + 1)
                /\ objs'[o].keyPoints = objs[o].keyPoints
                /\ emitted' = << [ type |-> "followup",
                                   to |-> RoomOf(handlers[r].sessionId),
                                   followup |-> objs'[o].questions[n + 1] ] >> ]_vars

\* the first line of a reply that is not JSON was emitted as the followup
\* and is the session's latest question
C30_Witness ==
    /\ Len(emitted) = 1
    /\ emitted[1].type = "followup"
    /\ emitted[1].followup.text = "Can you elaborate?"
    /\ \E o \in Objs :
          /\ Len(objs[o].questions) >= 2
          /\ objs[o].questions[Len(objs[o].questions)] = emitted[1].followup
          /\ objs[o].answers # << >>

\* C24: whatever the role and the answers, the score localAnalyze returns
\* is an integer from 0 to 100, and the recommendation is the one to
\* proceed exactly when the score is 70 or more, the one to coach exactly
\* when it is from 45 to 69, and the one of further development exactly
\* when it is below 45.
C24_ScoreRangeAndTier ==
    state.result # Null
    => LET score == state.result.score
           recommendation == state.result.recommendation
       IN /\ score \in 0..100
          /\ recommendation = "Proceed to next-round interview" <=> score >= 70
          /\ recommendation = "Consider technical coaching"
                <=> (45 <= score /\ score < 70)
          /\ recommendation = "Needs further development" <=> score < 45

\* an answer of 100 words for a role without keywords scores 70, the
\* lowest score of the tier that proceeds
C24_Witness ==
    /\ state.result # Null
    /\ props.role = "Astronaut"
    /\ refs.localAnswers = << [transcript |-> LongAnswer] >>
    /\ state.result.score = 70
    /\ state.result.recommendation = "Proceed to next-round interview"

SameLetter(a, b) ==
    \/ a = b
    \/ \E n \in DOMAIN UpperCase : {a, b} = {UpperCase[n], LowerCase[n]}

\* keyword k occurs in text s, the case of the letters ignored
Occurs(k, s) ==
    \E i \in 0..(Len(s) - Len(k)) :
        \A j \in 1..Len(k) : SameLetter(s[i + j], k[j])

\* the integer nearest to 100 * m / n, the upper one of two
RoundedPercent(m, n) ==
    CHOOSE q \in 0..100 : 2 * n * q <= 200 * m + n /\ 200 * m + n < 2 * n * (q + 1)

\* C26: keywordScore is round(100 * matches / keywordCount), matches being
\* the number of distinct keywords of the role that occur in the joined
\* transcripts with the case ignored, and 50 for a role without keywords;
\* the returned summary names that number of matches and the strength of
\* domain terms is given exactly above 50.  For the one answer "I used
\* caching and SQL to reduce latency" and the role "Backend Engineer" the
\* matches are 3 of 10 keywords.
C26_KeywordScore ==
    state.result # Null
    => LET answers == refs.localAnswers
           r == props.role
           kws == { Chars(Keywords(r)[n]) : n \in DOMAIN Keywords(r) }
           found == { k \in kws : Occurs(k, join(answers)) }
           expected == IF kws = {} THEN 50
                       ELSE RoundedPercent(Cardinality(found), Cardinality(kws))
       IN /\ KeywordMatches(join(answers), r) = Cardinality(found)
          /\ keywordScore(KeywordMatches(join(answers), r), KeywordCount(r))
                = expected
          /\ state.result.summary =
                "You answered " \o ToString(Len(answers))
                \o " questions with an average of "
                \o ToString(AvgWords(TotalWords(join(answers)), Len(answers)))
                \o " words per answer. Detected "
                \o ToString(Cardinality(found))
                \o " relevant keywords for " \o r \o "."
          /\ (\E i \in DOMAIN state.result.strengths :
                 state.result.strengths[i] = "Used relevant domain terms")
             <=> expected > 50
          /\ ( /\ r = "Backend Engineer"
               /\ answers = << [transcript |->
                                  "I used caching and SQL to reduce latency"] >> )
             => /\ Cardinality(found) = 3
                /\ Cardinality(kws) = 10
                /\ expected = 30

\* the one answer of the example was analysed for "Backend Engineer":
\* eight words, three keywords, score 16
C26_Witness ==
    /\ state.result # Null
    /\ props.role = "Backend Engineer"
    /\ refs.localAnswers =
          << [transcript |-> "I used caching and SQL to reduce latency"] >>
    /\ state.result.summary =
          "You answered 1 questions with an average of 8 words per answer. Detected 3 relevant keywords for Backend Engineer."
    /\ state.result.score = 16
    /\ state.result.recommendation = "Needs further development"

\* sequence a is a prefix of sequence b
IsPrefix(a, b) == Len(a) <= Len(b) /\ SubSeq(b, 1, Len(a)) = a

\* C31: every step leaves every session object in place and its questions,
\* answers and keyPoints as prefixes of what they are after the step:
\* entries are only appended, never removed, reordered or rewritten.
C31_SequencesAppendOnly ==
    [][ \A o \in Objs :
          /\ o \in DOMAIN objs'
          /\ IsPrefix(objs[o].questions, objs'[o].questions)
          /\ IsPrefix(objs[o].answers, objs'[o].answers)
          /\ IsPrefix(objs[o].keyPoints, objs'[o].keyPoints) ]_vars

\* a session that grew in all three sequences: role defaults and a
\* follow-up were appended to its questions, two answers were recorded and
\* key points were pushed
C31_Witness ==
    \E o \in Objs :
        /\ Len(objs[o].questions) >= 4
        /\ Len(objs[o].answers) >= 2
        /\ Len(objs[o].keyPoints) >= 2


\* ------------------------------------------------------------------- C32
\* the client that created session object o (each client applies for its
\* own role in PairSpec)
CreatedBy(o, c) == objs[o].role = PairApplicant[c].role

\* C32: a candidate_answer or finish_interview step working on session A
\* changes no field of a stored session other than A, and none of the
\* events it emits goes to a client that created a stored session other
\* than A and did not create A.
C32_SessionsIsolated ==
    [][ \A rid \in DOMAIN handlers \cup DOMAIN handlers' :
          LET before == IF rid \in DOMAIN handlers THEN handlers[rid] ELSE Null
              after == IF rid \in DOMAIN handlers' THEN handlers'[rid] ELSE Null
              h == IF before # Null THEN before ELSE after
          IN (before # after /\ h.kind \in {"candidate_answer", "finish_interview"})
             => /\ \A id \in DOMAIN sessions :
                      sessions[id] # h.obj
                          => objs'[sessions[id]] = objs[sessions[id]]
                /\ \A i \in DOMAIN emitted' : \A c \in emitted'[i].to :
                      ~ /\ ~CreatedBy(h.obj, c)
                        /\ \E id \in DOMAIN sessions :
                              /\ sessions[id] # h.obj
                              /\ CreatedBy(sessions[id], c) ]_vars


\* ------------------------------------------------------------------- C33
\* a click on Start that begins a local session: the step speaks a question
StartsLocalSession ==
    /\ clicks' = clicks + 1
    /\ Len(acted') = 1
    /\ acted'[1].do = "speak"
    /\ acted'[1].autoListen

\* C33: except where a new local session starts, the local cursor never
\* decreases; it grows by one at most, and only in a step that captured an
\* answer or in which the follow-up watchdog fired; once the bank is seeded
\* the cursor is one of its indices.
C33_CursorMonotoneAndValid ==
    [][ /\ ~StartsLocalSession
            => /\ refs'.localIndex >= refs.localIndex
               /\ refs'.localIndex <= refs.localIndex + 1
               /\ refs'.localIndex > refs.localIndex
                    => \/ /\ recognition # Null
                          /\ recognition' = Null
                          /\ Len(refs'.localAnswers) = Len(refs.localAnswers) + 1
                       \/ \E t \in timers : /\ t.kind = "followup"
                                            /\ timers' = timers \ {t}
        /\ refs'.localQuestions # << >>
            => /\ 0 <= refs'.localIndex
               /\ refs'.localIndex < Len(refs'.localQuestions) ]_vars

\* in a remote session the watchdog seeded the bank and has advanced the
\* cursor twice, the second time just now
C33_Witness ==
    /\ state.sessionId = RemoteSessionId
    /\ refs.localQuestions = QuestionBank("QA Engineer")
    /\ refs.localIndex = 2
    /\ acted = << [ do |-> "speak", text |-> refs.localQuestions[3],
                    autoListen |-> TRUE ] >>

\* ------------------------------------------------------------------- C34
\* the number of whitespace-delimited tokens: the ends of the runs of
\* characters that are not whitespace
Tokens(text) ==
    Cardinality({ i \in DOMAIN text :
                    /\ text[i] \notin Whitespace
                    /\ (i = Len(text) \/ text[i + 1] \in Whitespace) })

\* the integer nearest to m / n, the upper one of two
Rounded(m, n) ==
    CHOOSE q \in 0..m : 2 * n * q <= 2 * m + n /\ 2 * m + n < 2 * n * (q + 1)

\* C34: the result of localAnalyze has avgWords = round(totalWords /
\* answerCount), totalWords being the number of whitespace-delimited tokens
\* of all transcripts, and 0 when there are no answers; its score is
\* min(100, round(min(avgWords, 120) / 120 * 60 + keywordScore * 0.4)); for
\* no answers and a role without keywords it returns (score 20).
C34_AverageAndScore ==
    state.result # Null
    => LET answers == refs.localAnswers
           r == props.role
           totalWords == Tokens(join(answers))
           answerCount == Len(answers)
           avgWords == IF answerCount = 0 THEN 0
                       ELSE Rounded(totalWords, answerCount)
           ks == keywordScore(KeywordMatches(join(answers), r), KeywordCount(r))
           \* min(avgWords,120)/120*60 + ks*0.4 in tenths
           tenths == 5 * Min(avgWords, 120) + 4 * ks
           score == Min(100, Rounded(tenths, 10))
       IN /\ state.result.score = score
          /\ state.result.summary =
                "You answered " \o ToString(answerCount)
                \o " questions with an average of " \o ToString(avgWords)
                \o " words per answer. Detected "
                \o ToString(KeywordMatches(join(answers), r))
                \o " relevant keywords for " \o r \o "."
          /\ (answers = << >> /\ r \notin DOMAIN ROLE_KEYWORDS)
                => /\ state.result.score = 20
                   /\ state.result.recommendation = "Needs further development"

\* no answers and a role without keywords: the analysis returned, with an
\* average of 0 words and the score 20
C34_Witness ==
    /\ state.result # Null
    /\ props.role = "Astronaut"
    /\ refs.localAnswers = << >>
    /\ state.result.score = 20
    /\ state.result.summary =
          "You answered 0 questions with an average of 0 words per answer. Detected 0 relevant keywords for Astronaut."


\* ------------------------------------------------------------------- C35
\* the sequence has the entry
Has(seq, entry) == \E i \in DOMAIN seq : seq[i] = entry

\* C35: the feedback of localAnalyze follows fixed thresholds: the strength
\* of detailed answers exactly when avgWords > 30 and the weakness of brief
\* answers exactly otherwise; the strength of domain terms exactly when
\* keywordScore > 50 and the weakness of terminology exactly otherwise; the
\* weakness of coverage exactly when there are fewer than six answers; the
\* lists hold nothing else, so one entry of each of the first two pairs is
\* always there.
C35_FeedbackThresholds ==
    state.result # Null
    => LET answers == refs.localAnswers
           r == props.role
           avgWords == AvgWords(TotalWords(join(answers)), Len(answers))
           ks == keywordScore(KeywordMatches(join(answers), r), KeywordCount(r))
           strengths == state.result.strengths
           weaknesses == state.result.weaknesses
           detailed == "Gave detailed answers"
           brief == "Answers were brief; provide more detail"
           terms == "Used relevant domain terms"
           terminology == "Mention more role-specific terminology and techniques"
           coverage == "Try to cover more topics in depth"
       IN /\ Has(strengths, detailed) <=> avgWords > 30
          /\ Has(weaknesses, brief) <=> ~(avgWords > 30)
          /\ Has(strengths, terms) <=> ks > 50
          /\ Has(weaknesses, terminology) <=> ~(ks > 50)
          /\ Has(weaknesses, coverage) <=> Len(answers) < 6
          /\ \A i \in DOMAIN strengths : strengths[i] \in {detailed, terms}
          /\ \A i \in DOMAIN weaknesses :
                weaknesses[i] \in {brief, terminology, coverage}
          /\ Len(strengths) + Len(weaknesses)
                = 2 + (IF Len(answers) < 6 THEN 1 ELSE 0)

\* six short answers for a role without keywords: both weaknesses of the
\* pairs and no weakness of coverage
C35_Witness ==
    /\ state.result # Null
    /\ Len(refs.localAnswers) = 6
    /\ props.role = "Astronaut"
    /\ state.result.strengths = << >>
    /\ state.result.weaknesses =
          << "Answers were brief; provide more detail",
             "Mention more role-specific terminology and techniques" >>


\* ------------------------------------------------------------------- C36
\* C36: a candidate_answer handler, from the request to its end, appends
\* three entries at most to the keyPoints of its session, whatever the
\* generator replied.
C36_AtMostThreeKeyPoints ==
    [][ \A rid \in Ending :
          handlers[rid].kind = "candidate_answer"
          => LET o == handlers[rid].obj
             IN Len(objs'[o].keyPoints) <= Len(objs[o].keyPoints) + 3 ]_vars


\* ------------------------------------------------------------------- C37
\* C37: the question of every followup event a candidate_answer handler
\* emits is, when it is emitted, an entry of the questions of the handler's
\* session, with the same id and text.
C37_FollowupIsASessionQuestion ==
    [][ \A rid \in Ending :
          handlers[rid].kind = "candidate_answer"
          => \A i \in DOMAIN emitted' :
                emitted'[i].type = "followup"
                => \E n \in DOMAIN objs'[handlers[rid].obj].questions :
                      LET q == objs'[handlers[rid].obj].questions[n]
                      IN /\ q.id = emitted'[i].followup.id
                         /\ q.text = emitted'[i].followup.text ]_vars


\* ------------------------------------------------------------------- C38
\* C38: when a candidate_answer names a question of its session, the
\* question text its prompt gives the generator is the text of that
\* question, and the answer is the transcript.
C38_PromptAsksTheAnsweredQuestion ==
    [][ \A rid \in Arriving :
          handlers'[rid].kind = "candidate_answer"
          => LET s == objs'[handlers'[rid].obj]
                 answer == s.answers[Len(s.answers)]
                 prompt == handlers'[rid].prompt
             IN /\ prompt.A = answer.transcript
                /\ \A n \in DOMAIN s.questions :
                      s.questions[n].id = answer.questionId
                      => prompt.Q = s.questions[n].text ]_vars


\* ------------------------------------------------------------------- C39
\* C39: once a result is presented (interviewFinished with a result) and
\* no other session has started, no step replaces the result by a
\* different one; a finished event arriving after the finish watchdog
\* fired leaves the result as the watchdog set it.
C39_PresentedResultIsKept ==
    [][ ( /\ state.interviewFinished
          /\ state.result # Null
          /\ ~state.sessionActive
          /\ ~state'.sessionActive
          /\ state'.sessionId = state.sessionId )
        => state'.result = state.result ]_vars


\* ------------------------------------------------------------------- C40
\* C40: when the follow-up watchdog fires in a remote session, it leaves a
\* seeded bank as it is, and the question it asks is the first entry of the
\* role's bank when it seeds the bank, and the entry after the cursor's
\* when the bank was seeded before: the entries are asked in bank order
\* from the first, none skipped and none twice.
C40_WatchdogAsksBankInOrder ==
    [][ ( /\ state.sessionId = RemoteSessionId
          /\ followup_timeout )
        => IF refs.localQuestions = << >>
           THEN /\ refs'.localQuestions = QuestionBank(props.role)
                /\ Asks(QuestionBank(props.role)[1])
           ELSE /\ refs'.localQuestions = refs.localQuestions
                /\ refs.localIndex + 1 < Len(refs.localQuestions)
                     => Asks(refs.localQuestions[refs.localIndex + 2]) ]_vars
====
